---- MODULE Spec2Model ----
(***************************************************************************)
(* q_scope: the refresh-token flow (RefreshTokenFlow on the OAuth2        *)
(* flow template), the client registrar and the SQLite stores they use.   *)
(* Every store call opens its own connection and commits on its own, so a  *)
(* store call is one atomic step and a request is a sequence of them.      *)
(***************************************************************************)
EXTENDS Integers, Sequences, FiniteSets, TLC

\* ------------------------------------------------------------------ bounds
\* request slots (coroutines running RefreshTokenFlow.execute)
NumRequests == 2
\* issuances the flow may start (each draws four uuid4 values)
MaxGrants == 2
\* the clock runs over 0..MaxTime
MaxTime == 1

\* register_client calls
NumRegistrations == 2

\* ids an audit row may carry
MaxAuditRows == 2

Requests == 1..NumRequests
Registrations == 1..NumRegistrations

\* ------------------------------------------------------------------ values
\* Python None where a string is expected
None == "None"
\* Python None where an integer is expected; an integer n is <<n>>
Null == <<>>
\* Python truthiness of an optional string ("not x")
Falsy(s) == s = None \/ s = ""

\* a scope string is space separated; it is held as the sequence of its
\* words, "" and None both as <<>> (both falsy, both without words)
ScopeSet(s) == {s[i] : i \in 1..Len(s)}

\* uuid.uuid4(): the k-th draw of the n-th issuance, never repeated
uuid4(n, k) == "uuid-" \o ToString(n) \o "-" \o ToString(k)

\* datastrutures: SuccessResult / FailedResult
SuccessResult(m) == [status |-> TRUE, client_message |-> m, error_code |-> None]
FailedResult(m, code) == [status |-> FALSE, client_message |-> m, error_code |-> code]

\* errors/oauth.py
INVALID_REQUEST == "oauth.invalid_request"
INVALID_SCOPE == "oauth.invalid_scope"
SERVER_ERROR == "oauth.server_error"
INVALID_CLIENT == "oauth.invalid_client"
INVALID_GRANT == "oauth.invalid_grant"

\* ------------------------------------------------------------------ hasher
\* hashlib.sha256 as an injective function of its input
sha256(x) == "sha256(" \o x \o ")"

\* mutant: the secret is hashed without its context
contextualize_secret_Unbound(secret, user_id, client_id) == secret

\* Argon2ClientSecretHasher._contextualize_secret
contextualize_secret(secret, user_id, client_id) ==
    secret \o ":" \o sha256(user_id \o ":" \o client_id)

\* Argon2ClientSecretHasher.hash (the salt is part of the opaque output)
Hasher_hash(secret, user_id, client_id) ==
    "$argon2id$" \o contextualize_secret(secret, user_id, client_id)

\* Argon2ClientSecretHasher.verify: a mismatch and a malformed hash are both
\* False
Hasher_verify(secret, hashed_secret, user_id, client_id) ==
    hashed_secret = "$argon2id$" \o contextualize_secret(secret, user_id, client_id)

\* ------------------------------------------------------------------ state
VARIABLES
    oauth_clients,          \* table oauth_clients: set of rows
    oauth_client_configs,   \* table oauth_client_configs
    oauth_access_tokens,    \* table oauth_access_tokens
    oauth_refresh_tokens,   \* table oauth_refresh_tokens
    oauth_audit_log,        \* table oauth_audit_log
    now,                    \* the clock
    rotate_refresh_tokens,  \* OAuth2Config.rotate_refresh_tokens
    grants,                 \* issuances started so far (uuid4 draws)
    pc,                     \* per request: where execute() is
    context,                \* per request: the context dict
    result,                 \* per request: what _run returned
    response,               \* per request: what execute() returned / raised
    trace,                  \* per request: lifecycle events so far
    timestamp,              \* per request: clock.now() read by _postconditions
    before,                 \* per request: the tables when execute() began
    faulted,                \* per request: the steps whose store call failed
    redeemed,               \* refresh-token values of the successful requests, in order
    registrations,          \* per register_client call: where it is, its locals
    audit_call,             \* the last call on the audit-log repository and how it ended
    http,                   \* per request: the HTTP request and the response to it
    hasher_call,            \* the last call of the secret hasher and what it returned
    generator_call          \* the secret generator: its byte_length, its last call

tables == <<oauth_clients, oauth_client_configs, oauth_access_tokens,
            oauth_refresh_tokens, oauth_audit_log>>
flow == <<pc, context, result, response, trace, timestamp, before, faulted,
          redeemed>>
vars == <<oauth_clients, oauth_client_configs, oauth_access_tokens,
          oauth_refresh_tokens, oauth_audit_log, now, rotate_refresh_tokens,
          grants, pc, context, result, response, trace, timestamp, before,
          faulted, redeemed, registrations, audit_call, http, hasher_call,
          generator_call>>

Tables == [clients |-> oauth_clients, configs |-> oauth_client_configs,
           access |-> oauth_access_tokens, refresh |-> oauth_refresh_tokens,
           audit |-> oauth_audit_log]

\* ------------------------------------------------------------------ stores

\* OAuthClientStore.get_by_client_identifier
OAuthClientStore_get_by_client_identifier(client_identifier, fault) ==
    IF fault THEN FailedResult(None, "FETCH_FAILED")
    ELSE LET found == {c \in oauth_clients : c.client_identifier = client_identifier}
         IN IF found = {} THEN FailedResult(None, "NOT_FOUND")
            ELSE SuccessResult(CHOOSE c \in found : TRUE)

\* OAuthClientStore.get_by_id
OAuthClientStore_get_by_id(id, fault) ==
    IF fault THEN FailedResult(None, "FETCH_FAILED")
    ELSE LET found == {c \in oauth_clients : c.id = id}
         IN IF found = {} THEN FailedResult(None, "NOT_FOUND")
            ELSE SuccessResult(CHOOSE c \in found : TRUE)

\* clients.get_by_identifier(client_id, ray_id): called by the flow, not
\* defined by OAuthClientStore; the lookup by public identifier it stands for
\* is get_by_client_identifier
OAuthClientStore_get_by_identifier(client_identifier, fault) ==
    OAuthClientStore_get_by_client_identifier(client_identifier, fault)

\* OAuthClientConfigStore.get_by_client_id
OAuthClientConfigStore_get_by_client_id(client_id, fault) ==
    IF fault THEN FailedResult(None, "FETCH_FAILED")
    ELSE LET found == {c \in oauth_client_configs : c.client_id = client_id}
         IN IF found = {} THEN FailedResult(None, "NOT_FOUND")
            ELSE SuccessResult(CHOOSE c \in found : TRUE)

\* RefreshTokenStore.get_by_token
RefreshTokenStore_get_by_token(token, fault) ==
    IF fault THEN FailedResult(None, "FETCH_FAILED")
    ELSE LET found == {r \in oauth_refresh_tokens : r.token = token}
         IN IF found = {} THEN FailedResult(None, "NOT_FOUND")
            ELSE SuccessResult(CHOOSE r \in found : TRUE)

\* mutant: client_identifier is not unique in the table
OAuthClientStore_insert_NoUniqueIdentifier(table, row, fault) ==
    IF fault \/ \E r \in table : r.id = row.id
    THEN [table |-> table, result |-> FailedResult(None, "INSERT_FAILED")]
    ELSE [table |-> table \cup {row}, result |-> SuccessResult(None)]

\* OAuthClientStore.insert: id is the primary key, client_identifier is unique
OAuthClientStore_insert(table, row, fault) ==
    IF fault \/ \E r \in table : r.id = row.id \/ r.client_identifier = row.client_identifier
    THEN [table |-> table, result |-> FailedResult(None, "INSERT_FAILED")]
    ELSE [table |-> table \cup {row}, result |-> SuccessResult(None)]

\* OAuthClientStore.update: the row with the given id takes the given values,
\* client_secret included, whatever they are; client_identifier is unique
OAuthClientStore_update(table, row, fault) ==
    IF fault \/ \E r \in table : r.id # row.id /\ r.client_identifier = row.client_identifier
    THEN table
    ELSE {IF r.id = row.id
          THEN [r EXCEPT !.client_identifier = row.client_identifier,
                         !.client_secret = row.client_secret,
                         !.is_confidential = row.is_confidential,
                         !.is_enabled = row.is_enabled]
          ELSE r : r \in table}

\* OAuthClientStore.delete_by_id
OAuthClientStore_delete_by_id(table, id, fault) ==
    IF fault THEN [table |-> table, result |-> FailedResult(None, "DELETE_FAILED")]
    ELSE IF \A r \in table : r.id # id
    THEN [table |-> table, result |-> FailedResult(None, "NOT_FOUND")]
    ELSE [table |-> {r \in table : r.id # id}, result |-> SuccessResult(None)]

\* OAuthClientConfigStore.insert: client_id is the primary key
OAuthClientConfigStore_insert(table, row, fault) ==
    IF fault \/ \E r \in table : r.client_id = row.client_id
    THEN [table |-> table, result |-> FailedResult(None, "INSERT_FAILED")]
    ELSE [table |-> table \cup {row}, result |-> SuccessResult(None)]

\* OAuthClientConfigStore.delete_by_client_id
OAuthClientConfigStore_delete_by_client_id(table, client_id, fault) ==
    IF fault THEN [table |-> table, result |-> FailedResult(None, "DELETE_FAILED")]
    ELSE IF \A r \in table : r.client_id # client_id
    THEN [table |-> table, result |-> FailedResult(None, "NOT_FOUND")]
    ELSE [table |-> {r \in table : r.client_id # client_id}, result |-> SuccessResult(None)]

\* AccessTokenStore.insert: id is the primary key, token is unique
AccessTokenStore_insert(table, row, fault) ==
    IF fault \/ \E r \in table : r.id = row.id \/ r.token = row.token
    THEN table ELSE table \cup {row}

\* RefreshTokenStore.insert: id is the primary key, token is unique
RefreshTokenStore_insert(table, row, fault) ==
    IF fault \/ \E r \in table : r.id = row.id \/ r.token = row.token
    THEN table ELSE table \cup {row}

\* RefreshTokenStore.update: writes revoked_at, updated_at of the row with
\* that id, whatever they are
RefreshTokenStore_update(table, row, fault) ==
    IF fault THEN table
    ELSE {IF r.id = row.id
          THEN [r EXCEPT !.revoked_at = row.revoked_at, !.updated_at = row.updated_at]
          ELSE r : r \in table}

\* RefreshTokenStore.delete_by_id
RefreshTokenStore_delete_by_id(table, id, fault) ==
    IF fault THEN table ELSE {r \in table : r.id # id}

\* refresh_tokens.revoke(id, timestamp): called by the flow, not defined by
\* RefreshTokenStore; revocation sets revoked_at = now (spec 4.3)
RefreshTokenStore_revoke(table, id, at, fault) ==
    IF fault THEN table
    ELSE {IF r.id = id THEN [r EXCEPT !.revoked_at = <<at>>] ELSE r : r \in table}

\* refresh_tokens.update_timestamp(id, timestamp): called by the flow, not
\* defined by RefreshTokenStore; sets updated_at = now (spec 4.3)
RefreshTokenStore_update_timestamp(table, id, at, fault) ==
    IF fault THEN table
    ELSE {IF r.id = id THEN [r EXCEPT !.updated_at = at] ELSE r : r \in table}

\* AccessTokenStore.count_by_refresh_token: the table has no link to the
\* refresh token
AccessTokenStore_count_by_refresh_token(refresh_token_id) == 0

\* ------------------------------------------------------------------ initial state
\* the rows the flow tests start from: a confidential and a public client,
\* their configurations, one refresh token each
SeedClients ==
    { [id |-> "cid-web", client_identifier |-> "web-app",
       client_secret |-> Hasher_hash("valid_secret", "user_123", "cid-web"),
       is_confidential |-> TRUE, is_enabled |-> TRUE, created_by |-> "user_123"],
      [id |-> "cid-mob", client_identifier |-> "mobile", client_secret |-> None,
       is_confidential |-> FALSE, is_enabled |-> TRUE, created_by |-> "user_456"] }

SeedConfigs ==
    { [client_id |-> "cid-web", access_token_ttl |-> 3600,
       max_active_access_tokens |-> Null],
      [client_id |-> "cid-mob", access_token_ttl |-> 600,
       max_active_access_tokens |-> <<1>>] }

SeedRefreshTokens ==
    { [id |-> "rt_1", token |-> "valid", client_id |-> "cid-web",
       user_id |-> "user_1", scopes |-> <<"read", "write">>, revoked_at |-> Null,
       created_at |-> 0, updated_at |-> 0],
      [id |-> "rt_2", token |-> "mobile_rt", client_id |-> "cid-mob",
       user_id |-> "user_2", scopes |-> <<"read">>, revoked_at |-> Null,
       created_at |-> 0, updated_at |-> 0] }

NoClient == [id |-> None, client_identifier |-> None, client_secret |-> None,
             is_confidential |-> FALSE, is_enabled |-> FALSE, created_by |-> None]
NoConfig == [client_id |-> None, access_token_ttl |-> 0,
             max_active_access_tokens |-> Null]
NoRefreshToken == [id |-> None, token |-> None, client_id |-> None,
                   user_id |-> None, scopes |-> <<>>, revoked_at |-> Null,
                   created_at |-> 0, updated_at |-> 0]
NoContext == [refresh_token |-> None, scope |-> <<>>, client_id |-> None,
              client_secret |-> None, client_obj |-> NoClient,
              client_config |-> NoConfig, refresh_token_obj |-> NoRefreshToken]
NoResult == [issue |-> 0]
NoResponse == [kind |-> "none"]
NoTables == [clients |-> {}, configs |-> {}, access |-> {}, refresh |-> {},
             audit |-> {}]

\* a register_client call that has not begun
NoRequest == [user_id |-> None, client_identifier |-> None, is_confidential |-> FALSE,
              redirect_uris |-> <<>>, grant_types |-> <<>>, access_token_ttl |-> 0,
              authorization_code_ttl |-> 0, max_active_access_tokens |-> Null]
\* the hasher has not been called yet
NoHasherCall == [op |-> None, secret |-> None, user_id |-> None, client_id |-> None,
                 hashed_secret |-> None, of |-> <<>>, raised |-> None, returned |-> FALSE]

\* no secret generator constructed yet
NoGeneratorCall == [op |-> None, byte_length |-> 0, requested |-> 0, raised |-> None,
                    user_id |-> None,
                    random_bytes |-> <<>>, secret |-> <<>>]

\* no HTTP request handled yet
NoHeader == [prefix |-> None, rest |-> None]
NoBody == [json |-> FALSE, grant_type |-> None, refresh_token |-> None,
           scope |-> <<>>, client_id |-> None, client_secret |-> None]
NoHttpRequest == [content_type |-> None, body |-> NoBody, authorization |-> NoHeader]
NoHttpResponse == [status_code |-> 0, content |-> [error |-> None]]
NoHttp == [request |-> NoHttpRequest, response |-> NoHttpResponse]
\* no call on the audit-log repository yet
NoAuditCall == [op |-> None, id |-> None, raised |-> None, result |-> SuccessResult(None)]

NoRegistration == [pc |-> "idle", request |-> NoRequest, client_id |-> None,
                   plaintext_secret |-> None, result |-> SuccessResult(None),
                   faulted |-> {}, before |-> NoTables]

InitRequests ==
    /\ pc = [p \in Requests |-> "idle"]
    /\ context = [p \in Requests |-> NoContext]
    /\ result = [p \in Requests |-> NoResult]
    /\ response = [p \in Requests |-> NoResponse]
    /\ trace = [p \in Requests |-> <<>>]
    /\ timestamp = [p \in Requests |-> 0]
    /\ before = [p \in Requests |-> NoTables]
    /\ faulted = [p \in Requests |-> {}]

Init ==
    /\ oauth_clients = SeedClients
    /\ oauth_client_configs = SeedConfigs
    /\ oauth_access_tokens = {}
    /\ oauth_refresh_tokens = SeedRefreshTokens
    /\ oauth_audit_log = {}
    /\ now = 0
    /\ rotate_refresh_tokens \in BOOLEAN
    /\ grants = 0
    /\ redeemed = <<>>
    /\ InitRequests
    /\ registrations = [i \in Registrations |-> NoRegistration]
    /\ audit_call = NoAuditCall
    /\ http = [p \in Requests |-> NoHttp]
    /\ hasher_call = NoHasherCall
    /\ generator_call = NoGeneratorCall

\* what a caller may put into the context dict: the credentials of no
\* client, of an unknown client, of the confidential client (right, wrong and
\* missing secret) and of the public client
Credentials ==
    { <<None, None>>, <<"nobody", "valid_secret">>, <<"web-app", "valid_secret">>,
      <<"web-app", "wrong">>, <<"web-app", None>>, <<"mobile", None>>,
      <<"mobile", "wrong">> }

RequestedScopes == {<<>>, <<"read">>, <<"admin">>}

PresentedTokens == {None, "unknown"} \cup {r.token : r \in oauth_refresh_tokens}

Context(token, scope, cred) ==
    [refresh_token |-> token, scope |-> scope, client_id |-> cred[1],
     client_secret |-> cred[2], client_obj |-> NoClient, client_config |-> NoConfig,
     refresh_token_obj |-> NoRefreshToken]

Contexts ==
    {Context(t, s, cr) : t \in PresentedTokens, s \in RequestedScopes, cr \in Credentials}

Idle(p) == pc[p] = "idle"
InFlight == {q \in Requests : ~Idle(q) /\ pc[q] # "returned"}

\* ------------------------------------------------------------------ clock
\* Clock.now() is read from a clock that only moves forward
Tick ==
    /\ now < MaxTime
    /\ now' = now + 1
    /\ UNCHANGED <<tables, rotate_refresh_tokens, grants, flow,
                   registrations, audit_call, http, hasher_call, generator_call>>

\* ------------------------------------------------------------------ flow template
\* ConditionChain: the conditions of RefreshTokenFlow._preconditions, in
\* declaration order
Conditions == <<"presence", "authenticate", "validate_refresh_token", "check_limit">>

\* mutant: the chain goes on after a failure and reports the last result
ConditionChain_execute_NoShortCircuit(i, r) ==
    IF i < Len(Conditions) THEN Conditions[i + 1]
    ELSE IF r.status = FALSE THEN "failed" ELSE "passed"

\* ConditionChain.execute: after condition i returned r, stop at a failure,
\* else go on with the next condition, else all passed
ConditionChain_execute(i, r) ==
    IF r.status = FALSE THEN "failed"
    ELSE IF i < Len(Conditions) THEN Conditions[i + 1] ELSE "passed"

\* mutant: a precondition failure leaves a row in the audit log
Raise_Audited(p, r) ==
    /\ pc' = [pc EXCEPT ![p] = "returned"]
    /\ response' = [response EXCEPT ![p] =
                      [kind |-> "error", error_code |-> r.error_code]]
    /\ oauth_audit_log' = oauth_audit_log \cup {[event_type |-> "oauth.flow.failure"]}
    /\ UNCHANGED <<oauth_clients, oauth_client_configs, oauth_access_tokens,
                   oauth_refresh_tokens, result, trace, timestamp>>

\* RefreshTokenFlow._preconditions raising OAuthException(error_code, message):
\* execute() ends there, nothing else of the request runs
Raise(p, r) ==
    /\ pc' = [pc EXCEPT ![p] = "returned"]
    /\ response' = [response EXCEPT ![p] =
                      [kind |-> "error", error_code |-> r.error_code]]
    /\ UNCHANGED <<tables, result, trace, timestamp>>

\* OAuth2Authorization.execute between two conditions, and from the last
\* condition into _run
Proceed(p, i, r) ==
    LET next == ConditionChain_execute(i, r)
    IN IF next = "failed" THEN Raise(p, r)
       ELSE /\ pc' = [pc EXCEPT ![p] = IF next = "passed" THEN "run" ELSE next]
            /\ UNCHANGED <<tables, result, response, trace, timestamp>>

\* OAuth2Authorization.execute: _log_start, then _preconditions
Execute(p, c, serial) ==
    /\ pc[p] = "idle"
    /\ \A q \in Requests : q < p => ~Idle(q)
    /\ serial => \A q \in Requests : Idle(q)
    /\ grants + Cardinality(InFlight) < MaxGrants
    /\ pc' = [pc EXCEPT ![p] = "presence"]
    /\ context' = [context EXCEPT ![p] = c]
    /\ result' = [result EXCEPT ![p] = NoResult]
    /\ response' = [response EXCEPT ![p] = NoResponse]
    /\ trace' = [trace EXCEPT ![p] = <<"log_start", "preconditions">>]
    /\ before' = [before EXCEPT ![p] = Tables]
    /\ faulted' = [faulted EXCEPT ![p] = {}]
    /\ UNCHANGED <<tables, now, rotate_refresh_tokens, grants, timestamp, redeemed,
                   registrations, audit_call, hasher_call, generator_call>>

\* the caller takes the response; the coroutine is gone
Return(p) ==
    /\ pc[p] = "returned"
    /\ pc' = [pc EXCEPT ![p] = "idle"]
    /\ context' = [context EXCEPT ![p] = NoContext]
    /\ result' = [result EXCEPT ![p] = NoResult]
    /\ response' = [response EXCEPT ![p] = NoResponse]
    /\ trace' = [trace EXCEPT ![p] = <<>>]
    /\ timestamp' = [timestamp EXCEPT ![p] = 0]
    /\ before' = [before EXCEPT ![p] = NoTables]
    /\ faulted' = [faulted EXCEPT ![p] = {}]
    /\ UNCHANGED <<tables, now, rotate_refresh_tokens, grants, redeemed,
                   registrations, audit_call, http, hasher_call, generator_call>>

\* ------------------------------------------------------------------ conditions
\* ValidateRefreshTokenPresenceCondition.validate
ValidateRefreshTokenPresence(c) ==
    IF Falsy(c.refresh_token)
    THEN FailedResult("Missing refresh_token parameter", INVALID_REQUEST)
    ELSE SuccessResult(None)

PresenceStep(p) ==
    /\ pc[p] = "presence"
    /\ Proceed(p, 1, ValidateRefreshTokenPresence(context[p]))
    /\ UNCHANGED <<now, rotate_refresh_tokens, grants, context, before, faulted,
                   redeemed,
                   registrations, audit_call, http, hasher_call, generator_call>>

\* mutant: the presented secret is not verified against the stored hash
AuthenticateClient_NoVerify(c, client_result) ==
    IF Falsy(c.client_id) THEN FailedResult("Missing client_id", INVALID_CLIENT)
    ELSE IF ~client_result.status THEN FailedResult("Invalid client", INVALID_CLIENT)
    ELSE LET client == client_result.client_message
         IN IF client.is_confidential
            THEN IF Falsy(c.client_secret)
                 THEN FailedResult("Missing client_secret", INVALID_CLIENT)
                 ELSE IF Falsy(client.client_secret)
                 THEN FailedResult("Configuration error", SERVER_ERROR)
                 ELSE SuccessResult(client)
            ELSE SuccessResult(client)

\* mutant: a missing stored hash is answered like a secret mismatch
AuthenticateClient_MissingHashInvalidClient(c, client_result) ==
    IF Falsy(c.client_id) THEN FailedResult("Missing client_id", INVALID_CLIENT)
    ELSE IF ~client_result.status THEN FailedResult("Invalid client", INVALID_CLIENT)
    ELSE LET client == client_result.client_message
         IN IF client.is_confidential
            THEN IF Falsy(c.client_secret)
                 THEN FailedResult("Missing client_secret", INVALID_CLIENT)
                 ELSE IF Falsy(client.client_secret)
                 THEN FailedResult("Invalid client credentials", INVALID_CLIENT)
                 ELSE IF ~Hasher_verify(c.client_secret, client.client_secret,
                                        client.created_by, client.id)
                 THEN FailedResult("Invalid client credentials", INVALID_CLIENT)
                 ELSE SuccessResult(client)
            ELSE SuccessResult(client)

\* AuthenticateClientCondition.validate up to the configuration lookup:
\* the client lookup and the secret check
AuthenticateClient(c, client_result) ==
    IF Falsy(c.client_id) THEN FailedResult("Missing client_id", INVALID_CLIENT)
    ELSE IF ~client_result.status THEN FailedResult("Invalid client", INVALID_CLIENT)
    ELSE LET client == client_result.client_message
         IN IF client.is_confidential
            THEN IF Falsy(c.client_secret)
                 THEN FailedResult("Missing client_secret", INVALID_CLIENT)
                 ELSE IF Falsy(client.client_secret)
                 THEN FailedResult("Configuration error", SERVER_ERROR)
                 ELSE IF ~Hasher_verify(c.client_secret, client.client_secret,
                                        client.created_by, client.id)
                 THEN FailedResult("Invalid client credentials", INVALID_CLIENT)
                 ELSE SuccessResult(client)
            ELSE SuccessResult(client)

\* mutant: verify is called for every stored client that presents a secret
AuthenticateClient_verify_AnyClient(c, client_result) ==
    IF /\ ~Falsy(c.client_id)
       /\ client_result.status
       /\ ~Falsy(c.client_secret)
    THEN LET client == client_result.client_message
         IN [op |-> "verify", secret |-> c.client_secret, user_id |-> client.created_by,
             client_id |-> client.id, hashed_secret |-> client.client_secret,
             of |-> <<>>, raised |-> None,
             returned |-> Hasher_verify(c.client_secret, client.client_secret,
                                        client.created_by, client.id)]
    ELSE hasher_call

\* AuthenticateClientCondition.validate: the call of the hasher's verify, made
\* for a stored confidential client with a presented secret and a stored hash
AuthenticateClient_verify(c, client_result) ==
    IF /\ ~Falsy(c.client_id)
       /\ client_result.status
       /\ client_result.client_message.is_confidential
       /\ ~Falsy(c.client_secret)
       /\ ~Falsy(client_result.client_message.client_secret)
    THEN LET client == client_result.client_message
         IN [op |-> "verify", secret |-> c.client_secret, user_id |-> client.created_by,
             client_id |-> client.id, hashed_secret |-> client.client_secret,
             of |-> <<>>, raised |-> None,
             returned |-> Hasher_verify(c.client_secret, client.client_secret,
                                        client.created_by, client.id)]
    ELSE hasher_call

AuthenticateStep(p, fault) ==
    /\ pc[p] = "authenticate"
    /\ LET c == context[p]
           looked == OAuthClientStore_get_by_identifier(c.client_id, fault)
           r == AuthenticateClient(c, looked)
       IN /\ IF r.status
             THEN /\ context' = [context EXCEPT ![p].client_obj = r.client_message]
                  /\ pc' = [pc EXCEPT ![p] = "authenticate_config"]
                  /\ UNCHANGED <<tables, result, response, trace, timestamp>>
             ELSE /\ Proceed(p, 2, r)
                  /\ UNCHANGED context
          /\ hasher_call' = AuthenticateClient_verify(c, looked)
    /\ faulted' = [faulted EXCEPT ![p] = IF fault THEN @ \cup {pc[p]} ELSE @]
    /\ UNCHANGED <<now, rotate_refresh_tokens, grants, before, redeemed,
                   registrations, audit_call, http, generator_call>>

\* mutant: a client without configuration row goes on without one
AuthenticateClientConfig_Optional(config_result) ==
    IF config_result.status THEN SuccessResult(config_result.client_message)
    ELSE SuccessResult(NoConfig)

\* AuthenticateClientCondition.validate: the configuration lookup
AuthenticateClientConfig(config_result) ==
    IF config_result.status THEN SuccessResult(config_result.client_message)
    ELSE FailedResult("Client configuration missing", SERVER_ERROR)

AuthenticateConfigStep(p, fault) ==
    /\ pc[p] = "authenticate_config"
    /\ LET looked == OAuthClientConfigStore_get_by_client_id(context[p].client_obj.id, fault)
           r == AuthenticateClientConfig(looked)
       IN /\ context' = [context EXCEPT ![p].client_config =
                           IF r.status THEN r.client_message ELSE @]
          /\ Proceed(p, 2, r)
    /\ faulted' = [faulted EXCEPT ![p] = IF fault THEN @ \cup {pc[p]} ELSE @]
    /\ UNCHANGED <<now, rotate_refresh_tokens, grants, before, redeemed,
                   registrations, audit_call, http, hasher_call, generator_call>>

\* mutant: the revocation check is left out
ValidateRefreshToken_NoRevocationCheck(c, token_result) ==
    IF ~token_result.status THEN FailedResult("Invalid refresh token", INVALID_GRANT)
    ELSE LET token == token_result.client_message
         IN IF token.client_id # c.client_obj.id
            THEN FailedResult("Refresh token does not belong to client", INVALID_GRANT)
            ELSE SuccessResult(token)

\* mutant: the ownership check is left out
ValidateRefreshToken_NoClientCheck(c, token_result) ==
    IF ~token_result.status THEN FailedResult("Invalid refresh token", INVALID_GRANT)
    ELSE LET token == token_result.client_message
         IN IF token.revoked_at # Null
            THEN FailedResult("Refresh token revoked", INVALID_GRANT)
            ELSE SuccessResult(token)

\* ValidateRefreshTokenCondition.validate
ValidateRefreshToken(c, token_result) ==
    IF ~token_result.status THEN FailedResult("Invalid refresh token", INVALID_GRANT)
    ELSE LET token == token_result.client_message
         IN IF token.revoked_at # Null
            THEN FailedResult("Refresh token revoked", INVALID_GRANT)
            ELSE IF token.client_id # c.client_obj.id
            THEN FailedResult("Refresh token does not belong to client", INVALID_GRANT)
            ELSE SuccessResult(token)

ValidateRefreshTokenStep(p, fault) ==
    /\ pc[p] = "validate_refresh_token"
    /\ LET looked == RefreshTokenStore_get_by_token(context[p].refresh_token, fault)
           r == ValidateRefreshToken(context[p], looked)
       IN /\ context' = [context EXCEPT ![p].refresh_token_obj =
                           IF r.status THEN r.client_message ELSE @]
          /\ Proceed(p, 3, r)
    /\ faulted' = [faulted EXCEPT ![p] = IF fault THEN @ \cup {pc[p]} ELSE @]
    /\ UNCHANGED <<now, rotate_refresh_tokens, grants, before, redeemed,
                   registrations, audit_call, http, hasher_call, generator_call>>

\* CheckAccessTokenLimitCondition.validate: the count is always 0 and there
\* is never an oldest token, so nothing is revoked
CheckAccessTokenLimit(c) == SuccessResult(None)

CheckLimitStep(p) ==
    /\ pc[p] = "check_limit"
    /\ Proceed(p, 4, CheckAccessTokenLimit(context[p]))
    /\ UNCHANGED <<now, rotate_refresh_tokens, grants, context, before, faulted,
                   redeemed,
                   registrations, audit_call, http, hasher_call, generator_call>>

\* ------------------------------------------------------------------ _run
\* mutant: the requested scope is ignored
final_scope_Granted(requested_scope, granted) == granted

\* RefreshTokenFlow._run: the scope of the grant
final_scope(requested_scope, granted) ==
    IF requested_scope # <<>> THEN requested_scope ELSE granted

\* mutant: a new refresh token is drawn whatever the configuration says
RefreshTokenFlow_run_AlwaysRotates(c, n) ==
    [issue |-> n,
     access_token |-> uuid4(n, 1),
     token_type |-> "Bearer",
     expires_in |-> c.client_config.access_token_ttl,
     refresh_token |-> uuid4(n, 2),
     scope |-> final_scope(c.scope, c.refresh_token_obj.scopes),
     original_refresh_token_id |-> c.refresh_token_obj.id,
     is_rotated |-> uuid4(n, 2) # c.refresh_token_obj.token]

\* RefreshTokenFlow._run: the result dict
RefreshTokenFlow_run(c, n) ==
    LET new_refresh_token_str ==
            IF rotate_refresh_tokens THEN uuid4(n, 2) ELSE c.refresh_token_obj.token
    IN [issue |-> n,
        access_token |-> uuid4(n, 1),
        token_type |-> "Bearer",
        expires_in |-> c.client_config.access_token_ttl,
        refresh_token |-> new_refresh_token_str,
        scope |-> final_scope(c.scope, c.refresh_token_obj.scopes),
        original_refresh_token_id |-> c.refresh_token_obj.id,
        is_rotated |-> new_refresh_token_str # c.refresh_token_obj.token]

\* mutant: success is logged as soon as _run returned
RunStep_LogsSuccess(p) ==
    /\ pc[p] = "run"
    /\ grants' = grants + 1
    /\ result' = [result EXCEPT ![p] = RefreshTokenFlow_run(context[p], grants + 1)]
    /\ trace' = [trace EXCEPT ![p] = Append(Append(@, "run"), "log_success")]
    /\ pc' = [pc EXCEPT ![p] = "postconditions"]
    /\ UNCHANGED <<tables, now, rotate_refresh_tokens, context, response, timestamp,
                   before, faulted, redeemed,
                   registrations, audit_call, http, hasher_call, generator_call>>

\* OAuth2Authorization.execute: _run
RunStep(p) ==
    /\ pc[p] = "run"
    /\ grants' = grants + 1
    /\ result' = [result EXCEPT ![p] = RefreshTokenFlow_run(context[p], grants + 1)]
    /\ trace' = [trace EXCEPT ![p] = Append(@, "run")]
    /\ pc' = [pc EXCEPT ![p] = "postconditions"]
    /\ UNCHANGED <<tables, now, rotate_refresh_tokens, context, response, timestamp,
                   before, faulted, redeemed,
                   registrations, audit_call, http, hasher_call, generator_call>>

\* ------------------------------------------------------------------ _postconditions
\* mutant: the access token expires when it is issued (the ttl is not added)
NewAccessToken_NoTtl(c, res, at) ==
    [id |-> uuid4(res.issue, 3),
     token |-> res.access_token,
     client_id |-> c.client_obj.id,
     user_id |-> c.refresh_token_obj.user_id,
     scopes |-> res.scope,
     expires_at |-> at,
     revoked_at |-> Null,
     created_at |-> at]

\* mutant: the access token is issued to the user who registered the client
NewAccessToken_ClientOwner(c, res, at) ==
    [id |-> uuid4(res.issue, 3),
     token |-> res.access_token,
     client_id |-> c.client_obj.id,
     user_id |-> c.client_obj.created_by,
     scopes |-> res.scope,
     expires_at |-> at + res.expires_in,
     revoked_at |-> Null,
     created_at |-> at]

\* RefreshTokenFlow._postconditions: the AccessToken it builds
NewAccessToken(c, res, at) ==
    [id |-> uuid4(res.issue, 3),
     token |-> res.access_token,
     client_id |-> c.client_obj.id,
     user_id |-> c.refresh_token_obj.user_id,
     scopes |-> res.scope,
     expires_at |-> at + res.expires_in,
     revoked_at |-> Null,
     created_at |-> at]

\* RefreshTokenFlow._postconditions: the replacement RefreshToken it builds
NewRefreshToken(c, res, at) ==
    [id |-> uuid4(res.issue, 4),
     token |-> res.refresh_token,
     client_id |-> c.client_obj.id,
     user_id |-> c.refresh_token_obj.user_id,
     scopes |-> res.scope,
     revoked_at |-> Null,
     created_at |-> at,
     updated_at |-> at]

\* OAuth2Authorization.execute after _postconditions: _log_success, return result
Succeed(p) ==
    /\ pc' = [pc EXCEPT ![p] = "returned"]
    /\ trace' = [trace EXCEPT ![p] = Append(@, "log_success")]
    /\ response' = [response EXCEPT ![p] = [kind |-> "success", body |-> result[p]]]
    /\ redeemed' = Append(redeemed, context[p].refresh_token)

\* _postconditions, first store call: timestamp = clock.now(), then the
\* access-token insert, whose result is dropped
InsertAccessTokenStep(p, fault) ==
    /\ pc[p] = "postconditions"
    /\ timestamp' = [timestamp EXCEPT ![p] = now]
    /\ oauth_access_tokens' =
           AccessTokenStore_insert(oauth_access_tokens,
                                   NewAccessToken(context[p], result[p], now), fault)
    /\ trace' = [trace EXCEPT ![p] = Append(@, "postconditions")]
    /\ pc' = [pc EXCEPT ![p] = IF result[p].is_rotated THEN "revoke"
                               ELSE "update_timestamp"]
    /\ faulted' = [faulted EXCEPT ![p] = IF fault THEN @ \cup {pc[p]} ELSE @]
    /\ UNCHANGED <<oauth_clients, oauth_client_configs, oauth_refresh_tokens,
                   oauth_audit_log, now, rotate_refresh_tokens, grants, context,
                   result, response, before, redeemed,
                   registrations, audit_call, http, hasher_call, generator_call>>

\* _postconditions, rotation: revoke the presented token, result dropped
RevokeStep(p, fault) ==
    /\ pc[p] = "revoke"
    /\ oauth_refresh_tokens' =
           RefreshTokenStore_revoke(oauth_refresh_tokens,
                                    context[p].refresh_token_obj.id, timestamp[p], fault)
    /\ pc' = [pc EXCEPT ![p] = "insert_refresh"]
    /\ faulted' = [faulted EXCEPT ![p] = IF fault THEN @ \cup {pc[p]} ELSE @]
    /\ UNCHANGED <<oauth_clients, oauth_client_configs, oauth_access_tokens,
                   oauth_audit_log, now, rotate_refresh_tokens, grants, context,
                   result, response, trace, timestamp, before, redeemed,
                   registrations, audit_call, http, hasher_call, generator_call>>

\* _postconditions, rotation: insert the replacement, result dropped; nothing
\* is written to the audit log; then execute() returns the result
InsertRefreshTokenStep(p, fault) ==
    /\ pc[p] = "insert_refresh"
    /\ oauth_refresh_tokens' =
           RefreshTokenStore_insert(oauth_refresh_tokens,
                                    NewRefreshToken(context[p], result[p], timestamp[p]),
                                    fault)
    /\ Succeed(p)
    /\ faulted' = [faulted EXCEPT ![p] = IF fault THEN @ \cup {pc[p]} ELSE @]
    /\ UNCHANGED <<oauth_clients, oauth_client_configs, oauth_access_tokens,
                   oauth_audit_log, now, rotate_refresh_tokens, grants, context,
                   result, timestamp, before,
                   registrations, audit_call, http, hasher_call, generator_call>>

\* _postconditions, no rotation: touch updated_at of the presented token,
\* result dropped; then execute() returns the result
UpdateTimestampStep(p, fault) ==
    /\ pc[p] = "update_timestamp"
    /\ oauth_refresh_tokens' =
           RefreshTokenStore_update_timestamp(oauth_refresh_tokens,
                                              context[p].refresh_token_obj.id,
                                              timestamp[p], fault)
    /\ Succeed(p)
    /\ faulted' = [faulted EXCEPT ![p] = IF fault THEN @ \cup {pc[p]} ELSE @]
    /\ UNCHANGED <<oauth_clients, oauth_client_configs, oauth_access_tokens,
                   oauth_audit_log, now, rotate_refresh_tokens, grants, context,
                   result, timestamp, before,
                   registrations, audit_call, http, hasher_call, generator_call>>

\* ------------------------------------------------------------------ registrar
\* str.strip() on the strings the requests carry
strip(x) == IF x = " " THEN "" ELSE x

\* mutant: the ttl checks are left out
validate_request_NoTtlChecks(request) ==
    IF Falsy(request.user_id) \/ Falsy(strip(request.user_id))
    THEN FailedResult("user_id is required", "INVALID_REQUEST")
    ELSE IF Falsy(request.client_identifier) \/ Falsy(strip(request.client_identifier))
    THEN FailedResult("client_identifier is required", "INVALID_REQUEST")
    ELSE IF Len(request.redirect_uris) = 0
    THEN FailedResult("At least one redirect_uri is required", "INVALID_REQUEST")
    ELSE IF Len(request.grant_types) = 0
    THEN FailedResult("At least one grant_type is required", "INVALID_REQUEST")
    ELSE SuccessResult("Validation successful")

\* ClientRegistrar._validate_request
validate_request(request) ==
    IF Falsy(request.user_id) \/ Falsy(strip(request.user_id))
    THEN FailedResult("user_id is required", "INVALID_REQUEST")
    ELSE IF Falsy(request.client_identifier) \/ Falsy(strip(request.client_identifier))
    THEN FailedResult("client_identifier is required", "INVALID_REQUEST")
    ELSE IF Len(request.redirect_uris) = 0
    THEN FailedResult("At least one redirect_uri is required", "INVALID_REQUEST")
    ELSE IF Len(request.grant_types) = 0
    THEN FailedResult("At least one grant_type is required", "INVALID_REQUEST")
    ELSE IF request.access_token_ttl <= 0
    THEN FailedResult("access_token_ttl must be positive", "INVALID_REQUEST")
    ELSE IF request.authorization_code_ttl <= 0
    THEN FailedResult("authorization_code_ttl must be positive", "INVALID_REQUEST")
    ELSE SuccessResult("Validation successful")

\* mutant: an identifier that is taken counts as available
check_duplicate_identifier_Available(lookup) ==
    IF lookup.status \/ lookup.error_code = "NOT_FOUND"
    THEN SuccessResult("Identifier available")
    ELSE lookup

\* mutant: every failed lookup counts as 'identifier available'
check_duplicate_identifier_AnyFailure(lookup) ==
    IF lookup.status
    THEN FailedResult("Client identifier already exists", "DUPLICATE_CLIENT_IDENTIFIER")
    ELSE SuccessResult("Identifier available")

\* ClientRegistrar._check_duplicate_identifier, given the lookup's result
check_duplicate_identifier(lookup) ==
    IF lookup.status
    THEN FailedResult("Client identifier already exists", "DUPLICATE_CLIENT_IDENTIFIER")
    ELSE IF lookup.error_code = "NOT_FOUND" THEN SuccessResult("Identifier available")
    ELSE lookup

\* ClientRegistrar._generate_client_id: uuid4, the i-th call's draw
generate_client_id(i) == uuid4(i, 5)

\* DefaultClientSecretGenerator.generate_secret: 32 random bytes, encoded
generate_secret(user_id, i) == "secret-" \o ToString(i)

\* ClientRegistrar.get_client_by_id
get_client_by_id(client_id) == OAuthClientStore_get_by_id(client_id, FALSE)

\* ClientRegistrar.get_client_by_identifier
get_client_by_identifier(client_identifier) ==
    OAuthClientStore_get_by_client_identifier(client_identifier, FALSE)

\* mutant: the secret is stored as it was generated
NewOAuthClient_Plaintext(request, client_id, plaintext_secret) ==
    [id |-> client_id,
     client_identifier |-> request.client_identifier,
     client_secret |-> IF request.is_confidential THEN plaintext_secret ELSE None,
     is_confidential |-> request.is_confidential,
     is_enabled |-> TRUE,
     created_by |-> request.user_id]

\* mutant: a secret is hashed whether or not the client is confidential
NewOAuthClient_AlwaysHashed(request, client_id, plaintext_secret) ==
    [id |-> client_id,
     client_identifier |-> request.client_identifier,
     client_secret |-> Hasher_hash(plaintext_secret, request.user_id, client_id),
     is_confidential |-> request.is_confidential,
     is_enabled |-> TRUE,
     created_by |-> request.user_id]

\* register_client: the OAuthClient row it builds
NewOAuthClient(request, client_id, plaintext_secret) ==
    [id |-> client_id,
     client_identifier |-> request.client_identifier,
     client_secret |-> IF request.is_confidential
                       THEN Hasher_hash(plaintext_secret, request.user_id, client_id)
                       ELSE None,
     is_confidential |-> request.is_confidential,
     is_enabled |-> TRUE,
     created_by |-> request.user_id]

\* mutant: the configuration row is keyed by the public identifier
NewOAuthClientConfig_ByIdentifier(request, client_id) ==
    [client_id |-> request.client_identifier,
     access_token_ttl |-> request.access_token_ttl,
     max_active_access_tokens |-> request.max_active_access_tokens]

\* register_client: the OAuthClientConfig row it builds
NewOAuthClientConfig(request, client_id) ==
    [client_id |-> client_id,
     access_token_ttl |-> request.access_token_ttl,
     max_active_access_tokens |-> request.max_active_access_tokens]

\* register_client: the Client it returns on success
NewClient(request, client_id, plaintext_secret) ==
    [id |-> client_id,
     client_identifier |-> request.client_identifier,
     user_id |-> request.user_id,
     is_confidential |-> request.is_confidential,
     client_secret |-> plaintext_secret,
     is_enabled |-> TRUE]

\* the registration requests callers send: two valid ones, one for an
\* identifier that is taken, and invalid ones
RegistrationRequest(user_id, client_identifier, is_confidential, uris, ttl) ==
    [user_id |-> user_id, client_identifier |-> client_identifier,
     is_confidential |-> is_confidential, redirect_uris |-> uris,
     grant_types |-> <<"authorization_code", "refresh_token">>,
     access_token_ttl |-> ttl, authorization_code_ttl |-> 600,
     max_active_access_tokens |-> Null]

RegistrationRequests ==
    { RegistrationRequest("user_123", "test_confidential_client", TRUE,
                          <<"https://example.com/callback">>, 3600),
      RegistrationRequest("user_456", "test_public_client", FALSE,
                          <<"myapp://callback">>, 1800),
      RegistrationRequest("user_123", "web-app", TRUE,
                          <<"https://example.com/callback">>, 3600),
      RegistrationRequest(" ", "blank_user", TRUE,
                          <<"https://example.com/callback">>, 3600),
      RegistrationRequest("user_123", "no_uris", TRUE, <<>>, 3600),
      RegistrationRequest("user_123", "no_ttl", FALSE,
                          <<"https://example.com/callback">>, 0),
      RegistrationRequest("user_123", "", TRUE,
                          <<"https://example.com/callback">>, 3600),
      RegistrationRequest("", "no_user", TRUE,
                          <<"https://example.com/callback">>, 3600),
      [RegistrationRequest("user_123", "no_grants", TRUE,
                           <<"https://example.com/callback">>, 3600)
          EXCEPT !.grant_types = <<>>],
      [RegistrationRequest("user_123", "no_code_ttl", TRUE,
                           <<"https://example.com/callback">>, 3600)
          EXCEPT !.authorization_code_ttl = 0] }

RegReturn(i, r) ==
    registrations' = [registrations EXCEPT ![i].pc = "returned", ![i].result = r]

\* register_client up to its first store call: _validate_request
RegisterClient(i, request) ==
    /\ registrations[i].pc = "idle"
    /\ \A j \in Registrations : j < i => registrations[j].pc # "idle"
    /\ LET r == validate_request(request)
       IN registrations' =
              [registrations EXCEPT ![i].request = request,
                                    ![i].pc = IF r.status THEN "check_duplicate" ELSE "returned",
                                    ![i].result = r,
                                    ![i].before = Tables]
    /\ UNCHANGED <<tables, now, rotate_refresh_tokens, grants, flow, audit_call, http, hasher_call, generator_call>>

\* register_client: _check_duplicate_identifier, then the client id and the
\* secret are drawn
CheckDuplicateStep(i, fault) ==
    /\ registrations[i].pc = "check_duplicate"
    /\ LET reg == registrations[i]
           r == check_duplicate_identifier(
                    OAuthClientStore_get_by_client_identifier(
                        reg.request.client_identifier, fault))
       IN IF ~r.status
          THEN registrations' =
                   [registrations EXCEPT
                       ![i].pc = "returned", ![i].result = r,
                       ![i].faulted = IF fault THEN @ \cup {"check_duplicate"} ELSE @]
          ELSE registrations' =
                   [registrations EXCEPT
                       ![i].pc = "insert_client",
                       ![i].faulted = IF fault THEN @ \cup {"check_duplicate"} ELSE @,
                       ![i].client_id = generate_client_id(i),
                       ![i].plaintext_secret =
                           IF reg.request.is_confidential
                           THEN generate_secret(reg.request.user_id, i) ELSE None]
    /\ UNCHANGED <<tables, now, rotate_refresh_tokens, grants, flow, audit_call, http, hasher_call, generator_call>>

\* register_client: the identity insert; a failure is returned as it is
InsertClientStep(i, fault) ==
    /\ registrations[i].pc = "insert_client"
    /\ LET reg == registrations[i]
           ins == OAuthClientStore_insert(
                      oauth_clients,
                      NewOAuthClient(reg.request, reg.client_id, reg.plaintext_secret),
                      fault)
       IN /\ oauth_clients' = ins.table
          /\ IF ins.result.status
             THEN registrations' = [registrations EXCEPT ![i].pc = "insert_config"]
             ELSE RegReturn(i, ins.result)
    /\ UNCHANGED <<oauth_client_configs, oauth_access_tokens, oauth_refresh_tokens,
                   oauth_audit_log, now, rotate_refresh_tokens, grants, flow, audit_call, http, hasher_call, generator_call>>

\* register_client: the configuration insert; on success the Client is
\* returned, on failure the identity row is to be deleted
InsertConfigStep(i, fault) ==
    /\ registrations[i].pc = "insert_config"
    /\ LET reg == registrations[i]
           ins == OAuthClientConfigStore_insert(
                      oauth_client_configs,
                      NewOAuthClientConfig(reg.request, reg.client_id), fault)
       IN /\ oauth_client_configs' = ins.table
          /\ IF ins.result.status
             THEN RegReturn(i, SuccessResult(NewClient(reg.request, reg.client_id,
                                                       reg.plaintext_secret)))
             ELSE registrations' = [registrations EXCEPT ![i].pc = "rollback",
                                                         ![i].result = ins.result]
    /\ UNCHANGED <<oauth_clients, oauth_access_tokens, oauth_refresh_tokens,
                   oauth_audit_log, now, rotate_refresh_tokens, grants, flow, audit_call, http, hasher_call, generator_call>>

\* mutant: a failed compensating delete is what the caller is told
RollbackStep_ReturnsDeleteFailure(i, fault) ==
    /\ registrations[i].pc = "rollback"
    /\ LET del == OAuthClientStore_delete_by_id(oauth_clients, registrations[i].client_id,
                                                fault)
       IN /\ oauth_clients' = del.table
          /\ registrations' = [registrations EXCEPT
                                  ![i].pc = "returned",
                                  ![i].result = IF del.result.status THEN @ ELSE del.result,
                                  ![i].faulted = IF fault THEN @ \cup {"rollback"} ELSE @]
    /\ UNCHANGED <<oauth_client_configs, oauth_access_tokens, oauth_refresh_tokens,
                   oauth_audit_log, now, rotate_refresh_tokens, grants, flow, audit_call, http, hasher_call, generator_call>>

\* register_client: the compensating delete_by_id, whose result is dropped;
\* the configuration store's failure is returned
RollbackStep(i, fault) ==
    /\ registrations[i].pc = "rollback"
    /\ oauth_clients' =
           OAuthClientStore_delete_by_id(oauth_clients, registrations[i].client_id,
                                         fault).table
    /\ registrations' = [registrations EXCEPT
                            ![i].pc = "returned",
                            ![i].faulted = IF fault THEN @ \cup {"rollback"} ELSE @]
    /\ UNCHANGED <<oauth_client_configs, oauth_access_tokens, oauth_refresh_tokens,
                   oauth_audit_log, now, rotate_refresh_tokens, grants, flow, audit_call, http, hasher_call, generator_call>>

\* ------------------------------------------------------------------ token endpoint
\* starlette.status
HTTP_400_BAD_REQUEST == 400
HTTP_401_UNAUTHORIZED == 401
HTTP_500_INTERNAL_SERVER_ERROR == 500

\* the two exception classes named OAuthException
FlowOAuthException == "q_scope.implementations.oauth2.oauth_flows.refresh_token_flow.OAuthException"
ErrorsOAuthException == "q_scope.implementations.errors.exceptions.OAuthException"

\* what _preconditions raised: OAuthException as refresh_token_flow.py binds
\* the name, the class defined at the end of that module
RaisedException(p) ==
    [class |-> FlowOAuthException, error_code |-> response[p].error_code]

\* isinstance(exception, cls): neither class derives from the other
isinstance(exception, cls) == exception.class = cls

\* exception.error_code.replace("oauth.", "") on the codes of errors/oauth.py
rfc_error(error_code) ==
    CASE error_code = INVALID_REQUEST -> "invalid_request"
      [] error_code = INVALID_CLIENT -> "invalid_client"
      [] error_code = INVALID_GRANT -> "invalid_grant"
      [] error_code = INVALID_SCOPE -> "invalid_scope"
      [] error_code = SERVER_ERROR -> "server_error"
      [] error_code = "oauth.unsupported_grant_type" -> "unsupported_grant_type"
      [] OTHER -> error_code

JSONResponse(content, status_code) == [status_code |-> status_code, content |-> content]

\* RefreshTokenView.success
RefreshTokenView_success(data) == JSONResponse(data, 200)

\* RefreshTokenView.error
RefreshTokenView_error(exception) ==
    IF isinstance(exception, ErrorsOAuthException)
    THEN JSONResponse([error |-> rfc_error(exception.error_code)],
                      IF rfc_error(exception.error_code) = "invalid_client"
                      THEN HTTP_401_UNAUTHORIZED ELSE HTTP_400_BAD_REQUEST)
    ELSE JSONResponse([error |-> "server_error"], HTTP_500_INTERNAL_SERVER_ERROR)

\* RefreshTokenView.invalid_request
RefreshTokenView_invalid_request == JSONResponse([error |-> "invalid_request"], HTTP_400_BAD_REQUEST)

\* RefreshTokenView.unauthorized_client
RefreshTokenView_unauthorized_client == JSONResponse([error |-> "invalid_client"], HTTP_401_UNAUTHORIZED)

\* RefreshTokenView.unsupported_grant_type
RefreshTokenView_unsupported_grant_type ==
    JSONResponse([error |-> "unsupported_grant_type"], HTTP_400_BAD_REQUEST)

\* base64.b64decode(encoded).decode("utf-8") on the values a header may
\* carry: the text, or the exception raised (bad padding, bytes that are not
\* utf-8)
b64decode(encoded) ==
    CASE encoded = "d2ViLWFwcDp2YWxpZF9zZWNyZXQ=" -> [raised |-> None, text |-> "web-app:valid_secret"]
      [] encoded = "d2ViLWFwcDp3cm9uZw==" -> [raised |-> None, text |-> "web-app:wrong"]
      [] encoded = "d2ViLWFwcA==" -> [raised |-> None, text |-> "web-app"]
      [] encoded = "/w==" -> [raised |-> "UnicodeDecodeError", text |-> None]
      [] OTHER -> [raised |-> "binascii.Error", text |-> None]

\* decoded.split(":", 1) on those texts; one part when there is no ":"
split(decoded) ==
    CASE decoded = "web-app:valid_secret" -> <<"web-app", "valid_secret">>
      [] decoded = "web-app:wrong" -> <<"web-app", "wrong">>
      [] OTHER -> <<decoded>>

\* mutant: the grant type is not looked at
parse_request_AnyGrant(request) ==
    IF request.content_type # "application/json" THEN RefreshTokenView_invalid_request
    ELSE IF ~request.body.json THEN RefreshTokenView_invalid_request
    ELSE NoHttpResponse

\* RefreshTokenController.handle_token_request, steps 1 and 2: the response
\* when the request is refused there
parse_request(request) ==
    IF request.content_type # "application/json" THEN RefreshTokenView_invalid_request
    ELSE IF ~request.body.json THEN RefreshTokenView_invalid_request
    ELSE IF request.body.grant_type # "refresh_token"
    THEN RefreshTokenView_unsupported_grant_type
    ELSE NoHttpResponse

\* handle_token_request, step 3: the credentials, or the response when the
\* Basic header cannot be decoded
extract_credentials(request) ==
    LET body == <<request.body.client_id, request.body.client_secret>>
        auth_header == request.authorization
    IN IF auth_header.prefix = "Basic "
       THEN LET decoded == b64decode(auth_header.rest)
            IN IF decoded.raised # None
               THEN [credentials |-> body, response |-> RefreshTokenView_unauthorized_client]
               ELSE IF Len(split(decoded.text)) = 2
               THEN [credentials |-> split(decoded.text), response |-> NoHttpResponse]
               ELSE [credentials |-> body, response |-> NoHttpResponse]
       ELSE [credentials |-> body, response |-> NoHttpResponse]

\* handle_token_request up to flow.execute: the response, if it returns
\* before, and the context it builds otherwise
handle_token_request(request) ==
    LET parsed == parse_request(request)
        extracted == extract_credentials(request)
    IN IF parsed # NoHttpResponse THEN [response |-> parsed, context |-> NoContext]
       ELSE IF extracted.response # NoHttpResponse
       THEN [response |-> extracted.response, context |-> NoContext]
       ELSE [response |-> NoHttpResponse,
             context |-> Context(request.body.refresh_token, request.body.scope,
                                 extracted.credentials)]

\* the JSON object of a request body; an absent key reads as None
Body(grant_type, refresh_token, scope, cred) ==
    [json |-> TRUE, grant_type |-> grant_type, refresh_token |-> refresh_token,
     scope |-> scope, client_id |-> cred[1], client_secret |-> cred[2]]

\* a body that is not JSON
NotJson == NoBody

Basic(encoded) == [prefix |-> "Basic ", rest |-> encoded]

HttpRequest(content_type, body, authorization) ==
    [content_type |-> content_type, body |-> body, authorization |-> authorization]

\* the requests a caller may send to POST /token: body credentials right
\* and wrong, a missing, an unknown and a stored refresh token, another
\* grant type, a body that is not JSON, another content type, and
\* Authorization headers that are well-formed, undecodable, without ":" and
\* of another scheme
HttpRequests ==
    {HttpRequest("application/json", Body("refresh_token", t, <<>>, cr), NoHeader) :
        t \in PresentedTokens,
        cr \in {<<"web-app", "valid_secret">>, <<"web-app", "wrong">>}}
    \cup
    {HttpRequest("application/json",
                 Body("refresh_token", "valid", <<>>, cr), h) :
        cr \in {<<"web-app", "valid_secret">>, <<"nobody", None>>},
        h \in {Basic("d2ViLWFwcDp2YWxpZF9zZWNyZXQ="), Basic("d2ViLWFwcDp3cm9uZw=="),
               Basic("d2ViLWFwcA=="), Basic("/w=="), Basic("abc"),
               [prefix |-> "Bearer", rest |-> "abc"]}}
    \cup
    {HttpRequest("application/json",
                 Body("password", "valid", <<>>, <<"web-app", "valid_secret">>), NoHeader),
     HttpRequest("application/json",
                 Body(None, "valid", <<>>, <<"web-app", "valid_secret">>), NoHeader),
     HttpRequest("application/json", NotJson, NoHeader),
     HttpRequest("application/x-www-form-urlencoded",
                 Body("refresh_token", "valid", <<>>, <<"web-app", "valid_secret">>),
                 NoHeader)}

\* RefreshTokenController.handle_token_request up to the call of
\* flow.execute: the request is answered at once, or the flow begins
HandleTokenRequest(p, request) ==
    LET handled == handle_token_request(request)
    IN /\ pc[p] = "idle"
       /\ \A q \in Requests : Idle(q)
       /\ IF handled.response # NoHttpResponse
          THEN /\ http' = [http EXCEPT ![p] = [request |-> request,
                                                response |-> handled.response]]
               /\ http'[p] # http[p]
               /\ UNCHANGED <<tables, now, rotate_refresh_tokens, grants, flow,
                              registrations, audit_call, hasher_call, generator_call>>
          ELSE /\ Execute(p, handled.context, TRUE)
               /\ http' = [http EXCEPT ![p] = [request |-> request,
                                                response |-> NoHttpResponse]]

\* handle_token_request after flow.execute: view.success(result), or
\* view.error(e) for what it raised
Respond(p) ==
    /\ pc[p] = "returned"
    /\ http[p].response = NoHttpResponse
    /\ http' = [http EXCEPT ![p].response =
                   IF response[p].kind = "success"
                   THEN RefreshTokenView_success(response[p].body)
                   ELSE RefreshTokenView_error(RaisedException(p))]
    /\ UNCHANGED <<tables, now, rotate_refresh_tokens, grants, flow, registrations,
                   audit_call, hasher_call, generator_call>>

\* the response is sent
HttpReturn(p) ==
    /\ http[p].response # NoHttpResponse
    /\ Return(p)

\* ------------------------------------------------------------------ hasher calls
\* Argon2ClientSecretHasher.hash refuses an empty secret with ValueError
Hasher_hash_raises(secret) == Falsy(secret)

\* what callers may pass: secrets (one empty), user ids and client ids, some
\* containing the ":" that joins them in the context
HasherSecrets == {"valid_secret", "wrong", ""}
HasherUsers == {"user_1", "a", "a:b"}
HasherClients == {"cid-web", "c", "b:c"}

\* stored values that are no Argon2 hash
MalformedHashes == {"", "not-a-hash", "$argon2id$"}

\* a call of Argon2ClientSecretHasher.hash
HashCall(secret, user_id, client_id) ==
    /\ hasher_call' =
           IF Hasher_hash_raises(secret)
           THEN [NoHasherCall EXCEPT !.op = "hash", !.secret = secret,
                                     !.user_id = user_id, !.client_id = client_id,
                                     !.raised = "ValueError"]
           ELSE [NoHasherCall EXCEPT !.op = "hash", !.secret = secret,
                                     !.user_id = user_id, !.client_id = client_id,
                                     !.hashed_secret = Hasher_hash(secret, user_id, client_id),
                                     !.of = <<secret, user_id, client_id>>]
    /\ UNCHANGED <<tables, now, rotate_refresh_tokens, grants, flow, registrations,
                   audit_call, http, generator_call>>

\* a call of Argon2ClientSecretHasher.verify on a stored value: the hash
\* returned last, or a malformed one
VerifyCall(secret, hashed_secret, user_id, client_id) ==
    /\ \/ hashed_secret \in MalformedHashes
       \/ hasher_call.of # <<>> /\ hashed_secret = hasher_call.hashed_secret
    /\ hasher_call' =
           [op |-> "verify", secret |-> secret, user_id |-> user_id,
            client_id |-> client_id, hashed_secret |-> hashed_secret,
            of |-> IF hashed_secret \in MalformedHashes THEN <<>> ELSE hasher_call.of,
            raised |-> None,
            returned |-> Hasher_verify(secret, hashed_secret, user_id, client_id)]
    /\ UNCHANGED <<tables, now, rotate_refresh_tokens, grants, flow, registrations,
                   audit_call, http, generator_call>>

\* ------------------------------------------------------------------ secret generator
\* a ^ b on two bytes
RECURSIVE xor(_, _)
xor(a, b) ==
    IF a = 0 /\ b = 0 THEN 0
    ELSE ((a + b) % 2) + 2 * xor(a \div 2, b \div 2)

\* hashlib.sha256(user_id.encode("utf-8")).digest(): 32 bytes fixed by user_id
sha256_digest(user_id) ==
    LET seed == CASE user_id = "user_123" -> 11
                  [] user_id = "user_456" -> 200
                  [] OTHER -> 97
    IN [i \in 1..32 |-> (seed + 7 * i) % 256]

\* zip(a, b): pairs up to the end of the shorter sequence
zip(a, b) ==
    [i \in 1..(IF Len(a) < Len(b) THEN Len(a) ELSE Len(b)) |-> <<a[i], b[i]>>]

\* the URL-safe base64 alphabet
Alphabet ==
    <<"A", "B", "C", "D", "E", "F", "G", "H", "I", "J", "K", "L", "M", "N", "O", "P",
      "Q", "R", "S", "T", "U", "V", "W", "X", "Y", "Z", "a", "b", "c", "d", "e", "f",
      "g", "h", "i", "j", "k", "l", "m", "n", "o", "p", "q", "r", "s", "t", "u", "v",
      "w", "x", "y", "z", "0", "1", "2", "3", "4", "5", "6", "7", "8", "9", "-", "_">>

\* base64.urlsafe_b64encode: every 3 bytes give 4 characters, the last group
\* is filled up with "="
urlsafe_b64encode(bytes) ==
    LET byte(i) == IF i <= Len(bytes) THEN bytes[i] ELSE 0
        group(g) == byte(3 * g - 2) * 65536 + byte(3 * g - 1) * 256 + byte(3 * g)
        sextet(n, j) == CASE j = 0 -> n \div 262144
                          [] j = 1 -> (n \div 4096) % 64
                          [] j = 2 -> (n \div 64) % 64
                          [] OTHER -> n % 64
        data == (4 * Len(bytes) + 2) \div 3
    IN [k \in 1..(4 * ((Len(bytes) + 2) \div 3)) |->
           IF k > data THEN "="
           ELSE Alphabet[sextet(group((k + 3) \div 4), (k - 1) % 4) + 1]]

\* str.rstrip(ch)
RECURSIVE rstrip(_, _)
rstrip(text, ch) ==
    IF text # <<>> /\ text[Len(text)] = ch
    THEN rstrip(SubSeq(text, 1, Len(text) - 1), ch)
    ELSE text

\* DefaultClientSecretGenerator.generate_secret, given what token_bytes drew
DefaultClientSecretGenerator_generate_secret(user_id, random_bytes) ==
    LET mix == sha256_digest(user_id)
        pairs == zip(random_bytes, mix)
        combined == [i \in 1..Len(pairs) |-> xor(pairs[i][1], pairs[i][2])]
    IN rstrip(urlsafe_b64encode(combined), "=")

\* secrets.token_bytes(n): some of the byte strings of length n it may draw
token_bytes(n) ==
    {[i \in 1..n |-> (seed + step * i) % 256] : seed \in {0, 85, 255}, step \in {0, 1, 37}}

\* the byte_length values callers construct the generator with
ByteLengths == {0, 1, 16, 31, 32, 33, 43, 48, 64}

GeneratorUsers == {"user_123", "user_456", "user_789"}

\* DefaultClientSecretGenerator.__init__: raises below 32, and then there is
\* no new generator
NewGenerator(byte_length) ==
    /\ generator_call' =
           IF byte_length < 32
           THEN [generator_call EXCEPT !.op = "init", !.requested = byte_length,
                                       !.raised = "ValueError"]
           ELSE [NoGeneratorCall EXCEPT !.op = "init", !.requested = byte_length,
                                        !.byte_length = byte_length]
    /\ UNCHANGED <<tables, now, rotate_refresh_tokens, grants, flow, registrations,
                   audit_call, http, hasher_call>>

\* a call of generate_secret on the generator constructed last
GenerateSecret(user_id, random_bytes) ==
    /\ generator_call.byte_length # 0
    /\ Len(random_bytes) = generator_call.byte_length
    /\ generator_call' =
           [generator_call EXCEPT
               !.op = "generate_secret",
               !.requested = generator_call.byte_length,
               !.raised = None,
               !.user_id = user_id,
               !.random_bytes = random_bytes,
               !.secret = DefaultClientSecretGenerator_generate_secret(user_id,
                                                                       random_bytes)]
    /\ UNCHANGED <<tables, now, rotate_refresh_tokens, grants, flow, registrations,
                   audit_call, http, hasher_call>>

\* ------------------------------------------------------------------ audit log
\* AuditLogStore.insert: id is the primary key
AuditLogStore_insert(table, row, fault) ==
    IF fault \/ \E r \in table : r.id = row.id
    THEN [table |-> table, raised |-> None, result |-> FailedResult(None, "INSERT_FAILED")]
    ELSE [table |-> table \cup {row}, raised |-> None, result |-> SuccessResult(None)]

\* AuditLogTable.update: raises, no statement is run
AuditLogTable_update(table, row) ==
    [table |-> table, raised |-> "NotImplementedError", result |-> NoAuditCall.result]

\* mutant: delete_by_id deletes the row as the other stores do
AuditLogTable_delete_by_id_Deletes(table, id) ==
    [table |-> {r \in table : r.id # id}, raised |-> None, result |-> SuccessResult(None)]

\* AuditLogTable.delete_by_id: raises, no statement is run
AuditLogTable_delete_by_id(table, id) ==
    [table |-> table, raised |-> "NotImplementedError", result |-> NoAuditCall.result]

\* AuditLog rows a caller may pass to the repository
AuditLog(id, event_type, client_id, user_id) ==
    [id |-> id, event_type |-> event_type, subject |-> None, client_id |-> client_id,
     user_id |-> user_id, metadata |-> None, created_at |-> 0, created_by |-> "system",
     updated_at |-> 0, updated_by |-> "system"]

AuditIds == {uuid4(n, 4) : n \in 1..MaxAuditRows}

AuditLogs ==
    {AuditLog(id, e, c, "user_1") : id \in AuditIds,
                                    e \in {"token.issued", "client.registered"},
                                    c \in {"cid-web", "cid-mob"}}

\* a call of AuditLogStore.insert
AuditInsert(row, fault) ==
    /\ LET r == AuditLogStore_insert(oauth_audit_log, row, fault)
       IN /\ oauth_audit_log' = r.table
          /\ audit_call' = [op |-> "insert", id |-> row.id, raised |-> r.raised,
                            result |-> r.result]
    /\ UNCHANGED <<oauth_clients, oauth_client_configs, oauth_access_tokens,
                   oauth_refresh_tokens, now, rotate_refresh_tokens, grants, flow,
                   registrations, http, hasher_call, generator_call>>

\* a call of update on the audit-log repository
AuditUpdate(row) ==
    /\ LET r == AuditLogTable_update(oauth_audit_log, row)
       IN /\ oauth_audit_log' = r.table
          /\ audit_call' = [op |-> "update", id |-> row.id, raised |-> r.raised,
                            result |-> r.result]
    /\ UNCHANGED <<oauth_clients, oauth_client_configs, oauth_access_tokens,
                   oauth_refresh_tokens, now, rotate_refresh_tokens, grants, flow,
                   registrations, http, hasher_call, generator_call>>

\* a call of delete_by_id on the audit-log repository
AuditDelete(id) ==
    /\ LET r == AuditLogTable_delete_by_id(oauth_audit_log, id)
       IN /\ oauth_audit_log' = r.table
          /\ audit_call' = [op |-> "delete_by_id", id |-> id, raised |-> r.raised,
                            result |-> r.result]
    /\ UNCHANGED <<oauth_clients, oauth_client_configs, oauth_access_tokens,
                   oauth_refresh_tokens, now, rotate_refresh_tokens, grants, flow,
                   registrations, http, hasher_call, generator_call>>

\* ------------------------------------------------------------------ specifications
\* one request after the other, every store call succeeds
Next ==
    \/ Tick
    \/ \E p \in Requests, c \in Contexts : Execute(p, c, TRUE) /\ UNCHANGED http
    \/ \E p \in Requests : PresenceStep(p)
    \/ \E p \in Requests : AuthenticateStep(p, FALSE)
    \/ \E p \in Requests : AuthenticateConfigStep(p, FALSE)
    \/ \E p \in Requests : ValidateRefreshTokenStep(p, FALSE)
    \/ \E p \in Requests : CheckLimitStep(p)
    \/ \E p \in Requests : RunStep(p)
    \/ \E p \in Requests : InsertAccessTokenStep(p, FALSE)
    \/ \E p \in Requests : RevokeStep(p, FALSE)
    \/ \E p \in Requests : InsertRefreshTokenStep(p, FALSE)
    \/ \E p \in Requests : UpdateTimestampStep(p, FALSE)
    \/ \E p \in Requests : Return(p)

Spec == Init /\ [][Next]_vars

\* one request after the other; a store call may fail (its FailedResult
\* branch: the connection, the statement or the commit raised)
NextFault ==
    \/ Tick
    \/ \E p \in Requests, c \in Contexts : Execute(p, c, TRUE) /\ UNCHANGED http
    \/ \E p \in Requests : PresenceStep(p)
    \/ \E p \in Requests, f \in BOOLEAN : AuthenticateStep(p, f)
    \/ \E p \in Requests, f \in BOOLEAN : AuthenticateConfigStep(p, f)
    \/ \E p \in Requests, f \in BOOLEAN : ValidateRefreshTokenStep(p, f)
    \/ \E p \in Requests : CheckLimitStep(p)
    \/ \E p \in Requests : RunStep(p)
    \/ \E p \in Requests, f \in BOOLEAN : InsertAccessTokenStep(p, f)
    \/ \E p \in Requests, f \in BOOLEAN : RevokeStep(p, f)
    \/ \E p \in Requests, f \in BOOLEAN : InsertRefreshTokenStep(p, f)
    \/ \E p \in Requests, f \in BOOLEAN : UpdateTimestampStep(p, f)
    \/ \E p \in Requests : Return(p)

SpecFault == Init /\ [][NextFault]_vars

\* requests of clients with valid credentials, as the token endpoint gets
\* them from several connections at once
ConcurrentContexts ==
    {c \in Contexts : /\ <<c.client_id, c.client_secret>> \in
                            {<<"web-app", "valid_secret">>, <<"mobile", None>>}
                      /\ c.refresh_token # None
                      /\ c.scope = <<>>}

\* requests interleave at their awaits: every store call is a suspension
\* point, and each commits on its own connection
NextConc ==
    \/ Tick
    \/ \E p \in Requests, c \in ConcurrentContexts : Execute(p, c, FALSE) /\ UNCHANGED http
    \/ \E p \in Requests : PresenceStep(p)
    \/ \E p \in Requests : AuthenticateStep(p, FALSE)
    \/ \E p \in Requests : AuthenticateConfigStep(p, FALSE)
    \/ \E p \in Requests : ValidateRefreshTokenStep(p, FALSE)
    \/ \E p \in Requests : CheckLimitStep(p)
    \/ \E p \in Requests : RunStep(p)
    \/ \E p \in Requests : InsertAccessTokenStep(p, FALSE)
    \/ \E p \in Requests : RevokeStep(p, FALSE)
    \/ \E p \in Requests : InsertRefreshTokenStep(p, FALSE)
    \/ \E p \in Requests : UpdateTimestampStep(p, FALSE)
    \/ \E p \in Requests : Return(p)

SpecConc == Init /\ [][NextConc]_vars

\* a caller of the refresh-token repository: RefreshTokenStore.update with a
\* row object whose revoked_at is whatever the caller put there
UpdateRefreshToken(id, revoked_at) ==
    /\ \A q \in Requests : Idle(q)
    /\ \E r \in oauth_refresh_tokens :
           /\ r.id = id
           /\ oauth_refresh_tokens' =
                  RefreshTokenStore_update(oauth_refresh_tokens,
                      [r EXCEPT !.revoked_at = revoked_at, !.updated_at = now], FALSE)
    /\ oauth_refresh_tokens' # oauth_refresh_tokens
    /\ UNCHANGED <<oauth_clients, oauth_client_configs, oauth_access_tokens,
                   oauth_audit_log, now, rotate_refresh_tokens, grants, flow,
                   registrations, audit_call, http, hasher_call, generator_call>>

\* a caller of the refresh-token repository: RefreshTokenStore.delete_by_id
DeleteRefreshToken(id) ==
    /\ \A q \in Requests : Idle(q)
    /\ \E r \in oauth_refresh_tokens : r.id = id
    /\ oauth_refresh_tokens' =
           RefreshTokenStore_delete_by_id(oauth_refresh_tokens, id, FALSE)
    /\ UNCHANGED <<oauth_clients, oauth_client_configs, oauth_access_tokens,
                   oauth_audit_log, now, rotate_refresh_tokens, grants, flow,
                   registrations, audit_call, http, hasher_call, generator_call>>

\* a caller of the refresh-token repository: RefreshTokenStore.insert
InsertRefreshToken(row) ==
    /\ \A q \in Requests : Idle(q)
    /\ oauth_refresh_tokens' = RefreshTokenStore_insert(oauth_refresh_tokens, row, FALSE)
    /\ oauth_refresh_tokens' # oauth_refresh_tokens
    /\ UNCHANGED <<oauth_clients, oauth_client_configs, oauth_access_tokens,
                   oauth_audit_log, now, rotate_refresh_tokens, grants, flow,
                   registrations, audit_call, http, hasher_call, generator_call>>

\* the flow, one request after the other, next to direct callers of the
\* refresh-token repository
NextRepo ==
    \/ Tick
    \/ \E p \in Requests, c \in ConcurrentContexts : Execute(p, c, TRUE) /\ UNCHANGED http
    \/ \E p \in Requests : PresenceStep(p)
    \/ \E p \in Requests : AuthenticateStep(p, FALSE)
    \/ \E p \in Requests : AuthenticateConfigStep(p, FALSE)
    \/ \E p \in Requests : ValidateRefreshTokenStep(p, FALSE)
    \/ \E p \in Requests : CheckLimitStep(p)
    \/ \E p \in Requests : RunStep(p)
    \/ \E p \in Requests : InsertAccessTokenStep(p, FALSE)
    \/ \E p \in Requests : RevokeStep(p, FALSE)
    \/ \E p \in Requests : InsertRefreshTokenStep(p, FALSE)
    \/ \E p \in Requests : UpdateTimestampStep(p, FALSE)
    \/ \E p \in Requests : Return(p)
    \/ \E r \in oauth_refresh_tokens, v \in {Null, <<now>>} : UpdateRefreshToken(r.id, v)
    \/ \E r \in oauth_refresh_tokens : DeleteRefreshToken(r.id)
    \/ \E row \in SeedRefreshTokens : InsertRefreshToken(row)

SpecRepo == Init /\ [][NextRepo]_vars

\* what a caller of the client repository may store as a client's secret:
\* nothing, the empty string, the hash of the client's secret
StoredSecrets(r) == {None, "", Hasher_hash("valid_secret", r.created_by, r.id)}

\* a caller of the client repository: OAuthClientStore.update with a row
\* object whose client_secret is whatever the caller put there
UpdateClient(id, client_secret) ==
    /\ \A q \in Requests : Idle(q)
    /\ \E r \in oauth_clients :
           /\ r.id = id
           /\ oauth_clients' =
                  OAuthClientStore_update(oauth_clients,
                      [r EXCEPT !.client_secret = client_secret], FALSE)
    /\ oauth_clients' # oauth_clients
    /\ UNCHANGED <<oauth_client_configs, oauth_access_tokens, oauth_refresh_tokens,
                   oauth_audit_log, now, rotate_refresh_tokens, grants, flow,
                   registrations, audit_call, http, hasher_call, generator_call>>

\* the flow, one request after the other, next to a direct caller of the
\* client repository
NextClientRepo ==
    \/ Tick
    \/ \E p \in Requests, c \in Contexts : Execute(p, c, TRUE) /\ UNCHANGED http
    \/ \E p \in Requests : PresenceStep(p)
    \/ \E p \in Requests : AuthenticateStep(p, FALSE)
    \/ \E p \in Requests : AuthenticateConfigStep(p, FALSE)
    \/ \E p \in Requests : ValidateRefreshTokenStep(p, FALSE)
    \/ \E p \in Requests : CheckLimitStep(p)
    \/ \E p \in Requests : RunStep(p)
    \/ \E p \in Requests : InsertAccessTokenStep(p, FALSE)
    \/ \E p \in Requests : RevokeStep(p, FALSE)
    \/ \E p \in Requests : InsertRefreshTokenStep(p, FALSE)
    \/ \E p \in Requests : UpdateTimestampStep(p, FALSE)
    \/ \E p \in Requests : Return(p)
    \/ \E r \in oauth_clients : \E v \in StoredSecrets(r) : UpdateClient(r.id, v)

SpecClientRepo == Init /\ [][NextClientRepo]_vars

\* requests of the public client with no secret, an empty one and secrets of
\* any value, next to requests of the confidential client
PublicContexts ==
    {Context(t, <<>>, cr) :
        t \in PresentedTokens,
        cr \in {<<"mobile", None>>, <<"mobile", "">>, <<"mobile", "wrong">>,
                <<"mobile", "valid_secret">>, <<"web-app", "valid_secret">>}}

\* the flow, one request after the other, for public and confidential clients
NextPublic ==
    \/ Tick
    \/ \E p \in Requests, c \in PublicContexts : Execute(p, c, TRUE) /\ UNCHANGED http
    \/ \E p \in Requests : PresenceStep(p)
    \/ \E p \in Requests : AuthenticateStep(p, FALSE)
    \/ \E p \in Requests : AuthenticateConfigStep(p, FALSE)
    \/ \E p \in Requests : ValidateRefreshTokenStep(p, FALSE)
    \/ \E p \in Requests : CheckLimitStep(p)
    \/ \E p \in Requests : RunStep(p)
    \/ \E p \in Requests : InsertAccessTokenStep(p, FALSE)
    \/ \E p \in Requests : RevokeStep(p, FALSE)
    \/ \E p \in Requests : InsertRefreshTokenStep(p, FALSE)
    \/ \E p \in Requests : UpdateTimestampStep(p, FALSE)
    \/ \E p \in Requests : Return(p)

SpecPublic == Init /\ [][NextPublic]_vars

\* an administrative operation on a client: OAuthClientStore.update with a
\* row object whose is_enabled the caller has set
SetClientEnabled(id, is_enabled) ==
    /\ \A q \in Requests : Idle(q)
    /\ \E r \in oauth_clients :
           /\ r.id = id
           /\ oauth_clients' =
                  OAuthClientStore_update(oauth_clients,
                      [r EXCEPT !.is_enabled = is_enabled], FALSE)
    /\ oauth_clients' # oauth_clients
    /\ UNCHANGED <<oauth_client_configs, oauth_access_tokens, oauth_refresh_tokens,
                   oauth_audit_log, now, rotate_refresh_tokens, grants, flow,
                   registrations, audit_call, http, hasher_call, generator_call>>

\* a caller of the configuration repository:
\* OAuthClientConfigStore.delete_by_client_id
DeleteClientConfig(client_id) ==
    /\ \A q \in Requests : Idle(q)
    /\ LET r == OAuthClientConfigStore_delete_by_client_id(oauth_client_configs,
                                                           client_id, FALSE)
       IN /\ r.result.status
          /\ oauth_client_configs' = r.table
    /\ UNCHANGED <<oauth_clients, oauth_access_tokens, oauth_refresh_tokens,
                   oauth_audit_log, now, rotate_refresh_tokens, grants, flow,
                   registrations, audit_call, http, hasher_call, generator_call>>

\* requests that ask for the token's own scope
AdminContexts == {c \in Contexts : c.scope = <<>>}

\* the flow, one request after the other, next to the administrative
\* operations on clients and their configurations
NextAdmin ==
    \/ Tick
    \/ \E p \in Requests, c \in AdminContexts : Execute(p, c, TRUE) /\ UNCHANGED http
    \/ \E p \in Requests : PresenceStep(p)
    \/ \E p \in Requests : AuthenticateStep(p, FALSE)
    \/ \E p \in Requests : AuthenticateConfigStep(p, FALSE)
    \/ \E p \in Requests : ValidateRefreshTokenStep(p, FALSE)
    \/ \E p \in Requests : CheckLimitStep(p)
    \/ \E p \in Requests : RunStep(p)
    \/ \E p \in Requests : InsertAccessTokenStep(p, FALSE)
    \/ \E p \in Requests : RevokeStep(p, FALSE)
    \/ \E p \in Requests : InsertRefreshTokenStep(p, FALSE)
    \/ \E p \in Requests : UpdateTimestampStep(p, FALSE)
    \/ \E p \in Requests : Return(p)
    \/ \E r \in oauth_clients, e \in BOOLEAN : SetClientEnabled(r.id, e)
    \/ \E r \in oauth_client_configs : DeleteClientConfig(r.client_id)

SpecAdmin == Init /\ [][NextAdmin]_vars

\* register_client calls interleaving at their store calls, any of which
\* may fail
NextReg ==
    \/ \E i \in Registrations, request \in RegistrationRequests : RegisterClient(i, request)
    \/ \E i \in Registrations, f \in BOOLEAN : CheckDuplicateStep(i, f)
    \/ \E i \in Registrations, f \in BOOLEAN : InsertClientStep(i, f)
    \/ \E i \in Registrations, f \in BOOLEAN : InsertConfigStep(i, f)
    \/ \E i \in Registrations, f \in BOOLEAN : RollbackStep(i, f)

SpecReg == Init /\ [][NextReg]_vars

\* register_client calls interleaving at their store calls, every store
\* call answering; the configuration insert then cannot fail and no
\* compensation is run
NextRegRace ==
    \/ \E i \in Registrations, request \in RegistrationRequests : RegisterClient(i, request)
    \/ \E i \in Registrations : CheckDuplicateStep(i, FALSE)
    \/ \E i \in Registrations : InsertClientStep(i, FALSE)
    \/ \E i \in Registrations : InsertConfigStep(i, FALSE)

SpecRegRace == Init /\ [][NextRegRace]_vars

\* the audit-log repository under any sequence of its operations
NextAudit ==
    \/ \E row \in AuditLogs, f \in BOOLEAN : AuditInsert(row, f)
    \/ \E row \in AuditLogs : AuditUpdate(row)
    \/ \E id \in AuditIds : AuditDelete(id)

SpecAudit == Init /\ [][NextAudit]_vars

\* the token endpoint: requests one after the other, every store call
\* succeeds
NextHttp ==
    \/ Tick
    \/ \E p \in Requests, request \in HttpRequests : HandleTokenRequest(p, request)
    \/ \E p \in Requests : PresenceStep(p)
    \/ \E p \in Requests : AuthenticateStep(p, FALSE)
    \/ \E p \in Requests : AuthenticateConfigStep(p, FALSE)
    \/ \E p \in Requests : ValidateRefreshTokenStep(p, FALSE)
    \/ \E p \in Requests : CheckLimitStep(p)
    \/ \E p \in Requests : RunStep(p)
    \/ \E p \in Requests : InsertAccessTokenStep(p, FALSE)
    \/ \E p \in Requests : RevokeStep(p, FALSE)
    \/ \E p \in Requests : InsertRefreshTokenStep(p, FALSE)
    \/ \E p \in Requests : UpdateTimestampStep(p, FALSE)
    \/ \E p \in Requests : Respond(p)
    \/ \E p \in Requests : HttpReturn(p)

SpecHttp == Init /\ [][NextHttp]_vars

\* the secret hasher under any sequence of hash and verify calls
NextHasher ==
    \/ \E s \in HasherSecrets, u \in HasherUsers, c \in HasherClients : HashCall(s, u, c)
    \/ \E s \in HasherSecrets, u \in HasherUsers, c \in HasherClients,
          h \in MalformedHashes \cup {hasher_call.hashed_secret} : VerifyCall(s, h, u, c)

SpecHasher == Init /\ [][NextHasher]_vars

\* the secret generator constructed with any byte_length and called with any
\* user
NextGenerator ==
    \/ \E n \in ByteLengths : NewGenerator(n)
    \/ \E u \in GeneratorUsers :
          \E r \in token_bytes(generator_call.byte_length) : GenerateSecret(u, r)

SpecGenerator == Init /\ [][NextGenerator]_vars

\* ------------------------------------------------------------------ properties
Returned(p) == pc[p] = "returned"
Succeeded(p) == Returned(p) /\ response[p].kind = "success"
Failed(p) == Returned(p) /\ response[p].kind = "error"
FailedWith(p, code) == Failed(p) /\ response[p].error_code = code

\* the stored configuration of the client a request authenticated as
ConfigOf(p) == {g \in oauth_client_configs : g.client_id = context[p].client_obj.id}

\* C1: with rotation enabled, a request that passed its preconditions and
\* read the clock at t returns token_type "Bearer", expires_in = the client's
\* access_token_ttl and a refresh_token other than the presented one; the
\* presented row then has revoked_at = t, an unrevoked access-token row with
\* the returned access_token and expires_at = t + access_token_ttl exists, and
\* an unrevoked refresh-token row with the returned refresh_token exists.
C1_RotationIssues ==
    \A p \in Requests :
        (Succeeded(p) /\ rotate_refresh_tokens) =>
            LET b == response[p].body
                t == timestamp[p]
            IN /\ t \in 0..now
               /\ b.token_type = "Bearer"
               /\ \A g \in ConfigOf(p) : b.expires_in = g.access_token_ttl
               /\ ConfigOf(p) # {}
               /\ b.refresh_token # context[p].refresh_token
               /\ \E r \in oauth_refresh_tokens :
                      r.token = context[p].refresh_token /\ r.revoked_at = <<t>>
               /\ \E a \in oauth_access_tokens :
                      /\ a.token = b.access_token
                      /\ a.revoked_at = Null
                      /\ \A g \in ConfigOf(p) : a.expires_at = t + g.access_token_ttl
               /\ \E r \in oauth_refresh_tokens :
                      r.token = b.refresh_token /\ r.revoked_at = Null

\* a rotating request that succeeded after the clock had moved
C1_Witness ==
    \E p \in Requests :
        Succeeded(p) /\ rotate_refresh_tokens /\ timestamp[p] > 0

\* the row a request presented, as stored when execute() began
PresentedBefore(p) == {r \in before[p].refresh : r.token = context[p].refresh_token}

\* the request got through client authentication
Authenticated(p) == context[p].client_config # NoConfig

\* C2: with rotation enabled and requests run one after the other, a
\* refresh-token value is redeemed at most once: a request succeeds only on a
\* token that was unrevoked when it began, and every authenticated request
\* presenting a token whose revoked_at is set fails with INVALID_GRANT.
C2_SingleUse ==
    rotate_refresh_tokens =>
        /\ \A i, j \in 1..Len(redeemed) : redeemed[i] = redeemed[j] => i = j
        /\ \A p \in Requests :
               /\ Succeeded(p) =>
                      \E r \in PresentedBefore(p) : r.revoked_at = Null
               /\ (Returned(p) /\ Authenticated(p)
                                /\ \E r \in PresentedBefore(p) : r.revoked_at # Null)
                      => FailedWith(p, INVALID_GRANT)

\* a token redeemed earlier is presented again with valid credentials and
\* refused
C2_Witness ==
    \E p \in Requests, i \in 1..Len(redeemed) :
        /\ rotate_refresh_tokens
        /\ redeemed[i] = context[p].refresh_token
        /\ Authenticated(p)
        /\ FailedWith(p, INVALID_GRANT)

\* the request got as far as a validated refresh token, so only its scope is
\* left to decide
TokenAccepted(p) == context[p].refresh_token_obj # NoRefreshToken

\* C4: a request with a requested scope whose client and refresh token are
\* valid succeeds if and only if the set of requested scopes is a subset of
\* the scopes of the presented refresh token; when it is not, the flow fails
\* with INVALID_SCOPE and issues no token.
C4_ScopeSubset ==
    \A p \in Requests :
        (Returned(p) /\ TokenAccepted(p) /\ context[p].scope # <<>>) =>
            LET requested == ScopeSet(context[p].scope)
                granted == ScopeSet(context[p].refresh_token_obj.scopes)
            IN /\ Succeeded(p) <=> requested \subseteq granted
               /\ ~(requested \subseteq granted) =>
                      /\ FailedWith(p, INVALID_SCOPE)
                      /\ oauth_access_tokens = before[p].access
                      /\ oauth_refresh_tokens = before[p].refresh

\* C5: after a rotation the replacement refresh-token row has the client_id
\* and user_id of the predecessor row and a scope set that is a subset of the
\* predecessor's.
C5_RotationOwnership ==
    \A p \in Requests :
        (Succeeded(p) /\ response[p].body.is_rotated) =>
            \A new, old \in oauth_refresh_tokens :
                (new.token = response[p].body.refresh_token
                 /\ old.id = response[p].body.original_refresh_token_id) =>
                    /\ new.client_id = old.client_id
                    /\ new.user_id = old.user_id
                    /\ ScopeSet(new.scopes) \subseteq ScopeSet(old.scopes)

\* C7: when execute() fails during preconditions, whatever the error code,
\* no client, config, access-token, refresh-token or audit row has been
\* inserted, updated or deleted by the request, and neither _run nor
\* _postconditions has been invoked.
C7_FailureWritesNothing ==
    \A p \in Requests :
        Failed(p) =>
            /\ response[p].error_code \in {INVALID_REQUEST, INVALID_CLIENT,
                                           INVALID_GRANT, INVALID_SCOPE, SERVER_ERROR}
            /\ Tables = before[p]
            /\ \A i \in 1..Len(trace[p]) : trace[p][i] \notin {"run", "postconditions"}
            /\ result[p] = NoResult

\* a request refused after its store lookups, on tables an earlier request
\* has written to
C7_Witness ==
    \E p \in Requests :
        Failed(p) /\ Authenticated(p) /\ before[p].access # {}

\* the steps of _postconditions that call a store
PostconditionSteps == {"postconditions", "revoke", "insert_refresh", "update_timestamp"}

\* both requests presented the same refresh token while it was unrevoked
SameActiveToken(p, q) ==
    /\ context[p].refresh_token = context[q].refresh_token
    /\ \E r \in PresentedBefore(p) : r.revoked_at = Null
    /\ \E r \in PresentedBefore(q) : r.revoked_at = Null

\* C3: with rotation enabled, of two interleaved requests presenting the
\* same active refresh token at most one returns success; the other fails
\* with INVALID_GRANT and has inserted no access-token or refresh-token row.
C3_RaceOneWinner ==
    rotate_refresh_tokens =>
        \A p, q \in Requests :
            (p # q /\ Returned(p) /\ Returned(q) /\ SameActiveToken(p, q)
                   /\ Succeeded(p)) =>
                /\ FailedWith(q, INVALID_GRANT)
                /\ result[q] = NoResult

\* C6: once a refresh-token row has revoked_at set, no step of the flow or of
\* the refresh-token repository leaves that row with revoked_at = null.
C6_RevokedStaysRevoked ==
    [][\A r \in oauth_refresh_tokens :
           r.revoked_at # Null =>
               \A s \in oauth_refresh_tokens' : s.id = r.id => s.revoked_at # Null]_vars

\* C8: if a store call of _postconditions fails, the request ends with
\* SERVER_ERROR and the access-token, refresh-token and audit rows are what
\* they were before the request; a success is returned only for an access
\* token that is stored.
C8_PostconditionFailure ==
    \A p \in Requests :
        /\ (Returned(p) /\ faulted[p] \cap PostconditionSteps # {}) =>
               /\ FailedWith(p, SERVER_ERROR)
               /\ oauth_access_tokens = before[p].access
               /\ oauth_refresh_tokens = before[p].refresh
               /\ oauth_audit_log = before[p].audit
        /\ Succeeded(p) =>
               \E a \in oauth_access_tokens : a.token = response[p].body.access_token

\* another request is at a store read
Observing(q) == pc[q] \in {"authenticate", "authenticate_config", "validate_refresh_token"}

\* C9: while another request reads the stores, the effects of a rotating
\* request's _postconditions are visible all or none: never the new
\* access-token row with the predecessor still unrevoked, never the
\* predecessor revoked with the replacement row absent.
C9_AllOrNothing ==
    \A p, q \in Requests :
        (p # q /\ Observing(q) /\ result[p] # NoResult /\ result[p].is_rotated) =>
            LET issued == \E a \in oauth_access_tokens : a.token = result[p].access_token
                revoked == \E r \in oauth_refresh_tokens :
                               /\ r.id = result[p].original_refresh_token_id
                               /\ r.revoked_at # Null
                replaced == \E r \in oauth_refresh_tokens : r.token = result[p].refresh_token
            IN /\ ~(issued /\ ~revoked)
               /\ ~(revoked /\ ~replaced)

RegReturned(i) == registrations[i].pc = "returned"
RegSucceeded(i) == RegReturned(i) /\ registrations[i].result.status

\* C10: after register_client returned success, exactly one identity row and
\* exactly one configuration row exist for the returned client, the
\* configuration's client_id being the identity's id; and when every
\* registration so far has succeeded, as many identity rows as configuration
\* rows have been added.
C10_RegistrationAtomicity ==
    /\ \A i \in Registrations :
           RegSucceeded(i) =>
               LET client == registrations[i].result.client_message
                   identity == {r \in oauth_clients : r.id = client.id}
                   config == {g \in oauth_client_configs : g.client_id = client.id}
               IN /\ Cardinality(identity) = 1
                  /\ Cardinality(config) = 1
                  /\ \A r \in identity : r.client_identifier = client.client_identifier
    /\ (\A i \in Registrations : registrations[i].pc = "idle" \/ RegSucceeded(i)) =>
           LET n == Cardinality({i \in Registrations : RegSucceeded(i)})
           IN /\ Cardinality(oauth_clients) = Cardinality(SeedClients) + n
              /\ Cardinality(oauth_client_configs) = Cardinality(SeedConfigs) + n

\* two registrations of distinct identifiers have succeeded
C10_Witness ==
    \E i, j \in Registrations :
        /\ RegSucceeded(i) /\ RegSucceeded(j)
        /\ registrations[i].request.client_identifier #
               registrations[j].request.client_identifier

RegFailed(i) == RegReturned(i) /\ ~registrations[i].result.status

\* C11: after register_client returned a failure, whatever the failure, the
\* client the call attempted has neither an identity row nor a configuration
\* row: no identity row without a configuration row is left behind.
C11_FailureLeavesNoRow ==
    \A i \in Registrations :
        RegFailed(i) =>
            /\ \A r \in oauth_clients : r.id # registrations[i].client_id
            /\ \A g \in oauth_client_configs : g.client_id # registrations[i].client_id

\* C12: in every reachable state of the stores, the states between the steps
\* of a running register_client included, every client identity row has
\* exactly one client configuration row.
C12_OneConfigPerClient ==
    \A r \in oauth_clients :
        Cardinality({g \in oauth_client_configs : g.client_id = r.id}) = 1

\* the identifier belonged to a registered client when register_client was called
TakenAtCall(i) ==
    \E r \in registrations[i].before.clients :
        /\ r.client_identifier = registrations[i].request.client_identifier
        /\ \E g \in registrations[i].before.configs : g.client_id = r.id

\* C13: register_client called with a valid request whose client_identifier
\* already belongs to a stored client, the lookup answering, returns a failure
\* with error code DUPLICATE_CLIENT_IDENTIFIER, has drawn no client id (so it
\* wrote nothing), and exactly one identity row has that identifier.
C13_DuplicateRefused ==
    \A i \in Registrations :
        (RegReturned(i) /\ validate_request(registrations[i].request).status
                        /\ TakenAtCall(i)
                        /\ "check_duplicate" \notin registrations[i].faulted) =>
            /\ RegFailed(i)
            /\ registrations[i].result.error_code = "DUPLICATE_CLIENT_IDENTIFIER"
            /\ registrations[i].client_id = None
            /\ Cardinality({r \in oauth_clients :
                   r.client_identifier = registrations[i].request.client_identifier}) = 1

\* a registration refused as the duplicate of one registered before it
C13_Witness ==
    \E i, j \in Registrations :
        /\ i # j /\ RegSucceeded(j) /\ RegFailed(i) /\ TakenAtCall(i)
        /\ registrations[i].request.client_identifier =
               registrations[j].request.client_identifier
        /\ registrations[i].result.error_code = "DUPLICATE_CLIENT_IDENTIFIER"

\* C14: for every confidential client register_client has stored, the stored
\* client_secret is non-null, is the hasher's output for the generated
\* plaintext and differs from it; no stored row holds a generated plaintext;
\* the plaintext is in the value register_client returns; get_client_by_id and
\* get_client_by_identifier return the stored hash.
C14_SecretStoredHashed ==
    /\ \A i \in Registrations, r \in oauth_clients :
           (r.id = registrations[i].client_id /\ registrations[i].request.is_confidential) =>
               LET plaintext == registrations[i].plaintext_secret
                   by_id == get_client_by_id(r.id)
                   by_identifier == get_client_by_identifier(r.client_identifier)
               IN /\ plaintext # None
                  /\ r.client_secret # None
                  /\ r.client_secret = Hasher_hash(plaintext, r.created_by, r.id)
                  /\ r.client_secret # plaintext
                  /\ by_id.status /\ by_id.client_message.client_secret = r.client_secret
                  /\ by_identifier.status
                  /\ by_identifier.client_message.client_secret = r.client_secret
                  /\ RegSucceeded(i) =>
                         registrations[i].result.client_message.client_secret = plaintext
    /\ \A j \in Registrations, r \in oauth_clients :
           registrations[j].plaintext_secret # None =>
               r.client_secret # registrations[j].plaintext_secret

\* a confidential client has been registered
C14_Witness ==
    \E i \in Registrations :
        /\ RegSucceeded(i) /\ registrations[i].request.is_confidential
        /\ \E r \in oauth_clients : r.id = registrations[i].client_id

\* a request the registrar must refuse
InvalidRequest(request) ==
    \/ request.user_id = ""
    \/ request.client_identifier = ""
    \/ Len(request.redirect_uris) = 0
    \/ Len(request.grant_types) = 0
    \/ request.access_token_ttl <= 0
    \/ request.authorization_code_ttl <= 0

\* C15: register_client returns a failure with error code INVALID_REQUEST and
\* inserts no identity or configuration row whenever the request has an empty
\* user_id, an empty client_identifier, no redirect_uri, no grant_type,
\* access_token_ttl <= 0 or authorization_code_ttl <= 0.
C15_InvalidRequestRefused ==
    \A i \in Registrations :
        (registrations[i].pc # "idle" /\ InvalidRequest(registrations[i].request)) =>
            /\ RegFailed(i)
            /\ registrations[i].result.error_code = "INVALID_REQUEST"
            /\ registrations[i].client_id = None
            /\ \A r \in oauth_clients : r.id # generate_client_id(i)
            /\ \A g \in oauth_client_configs : g.client_id # generate_client_id(i)

\* a request with authorization_code_ttl <= 0 was refused after another
\* registration had succeeded
C15_Witness ==
    \E i, j \in Registrations :
        /\ RegSucceeded(j) /\ RegFailed(i)
        /\ registrations[i].request.authorization_code_ttl <= 0

\* the stored client a request's client_identifier resolved to when
\* execute() began
ClientBefore(p) ==
    {r \in before[p].clients : r.client_identifier = context[p].client_id}

\* the three cases of a client that is not authenticated: no stored client,
\* a confidential client without a presented secret, a presented secret the
\* hasher does not verify against the stored hash
Unauthenticated(p) ==
    \/ ClientBefore(p) = {}
    \/ \E r \in ClientBefore(p) :
           /\ r.is_confidential
           /\ \/ Falsy(context[p].client_secret)
              \/ /\ ~Falsy(r.client_secret)
                 /\ ~Hasher_verify(context[p].client_secret, r.client_secret,
                                   r.created_by, r.id)

\* C16: a refresh-token request, that is one presenting a refresh_token,
\* fails with INVALID_CLIENT, and issues no token, whenever the
\* client_identifier resolves to no stored client, or the client is
\* confidential and the request carries no client_secret, or the hasher's
\* verify of the presented secret against the stored hash returns false. A
\* request presenting no refresh_token is refused by the presence condition,
\* which runs first, with INVALID_REQUEST, and issues no token either.
C16_InvalidClient ==
    \A p \in Requests :
        (Returned(p) /\ Unauthenticated(p)) =>
            /\ Tables = before[p]
            /\ result[p] = NoResult
            /\ IF Falsy(context[p].refresh_token)
               THEN FailedWith(p, INVALID_REQUEST)
               ELSE FailedWith(p, INVALID_CLIENT)

\* the confidential client presents a stored token with a wrong secret and
\* is refused, on tables an earlier request has issued tokens into
C16_Witness ==
    \E p \in Requests :
        /\ FailedWith(p, INVALID_CLIENT)
        /\ ~Falsy(context[p].refresh_token)
        /\ \E r \in ClientBefore(p) :
               /\ r.is_confidential
               /\ ~Falsy(context[p].client_secret)
               /\ ~Hasher_verify(context[p].client_secret, r.client_secret,
                                 r.created_by, r.id)
        /\ before[p].access # {}

\* C17: an authenticated request fails with INVALID_GRANT whenever the
\* presented token value matches no stored refresh token or the matched row's
\* client_id differs from the id of the authenticated client; the matched
\* row, if any, is stored as it was, unrevoked if it was unrevoked, and no
\* other row has changed.
C17_ForeignTokenRefused ==
    \A p \in Requests :
        (Returned(p) /\ Authenticated(p) /\ ~Falsy(context[p].refresh_token)
            /\ \A r \in PresentedBefore(p) : r.client_id # context[p].client_obj.id) =>
            /\ FailedWith(p, INVALID_GRANT)
            /\ Tables = before[p]
            /\ \A r \in PresentedBefore(p) : r \in oauth_refresh_tokens
            /\ result[p] = NoResult

\* a client authenticated and presented the unrevoked token of another
\* client, on tables an earlier request has issued tokens into
C17_Witness ==
    \E p \in Requests :
        /\ FailedWith(p, INVALID_GRANT)
        /\ Authenticated(p)
        /\ before[p].access # {}
        /\ \E r \in PresentedBefore(p) :
               /\ r.client_id # context[p].client_obj.id
               /\ r.revoked_at = Null
               /\ r \in oauth_refresh_tokens

\* the access tokens that count against the quota of the request's client:
\* those of the client and user of the presented refresh token that are
\* neither revoked nor expired
ActiveAccessTokens(p) ==
    {a \in oauth_access_tokens :
        /\ a.client_id = context[p].refresh_token_obj.client_id
        /\ a.user_id = context[p].refresh_token_obj.user_id
        /\ a.revoked_at = Null
        /\ a.expires_at > now}

\* C18: for a client with max_active_access_tokens = N, after every
\* successful issuance the number of active access tokens (revoked_at null
\* and expires_at > now) counted for quota is at most N.
C18_FifoQuota ==
    \A p \in Requests :
        Succeeded(p) =>
            \A g \in ConfigOf(p) :
                g.max_active_access_tokens # Null =>
                    Cardinality(ActiveAccessTokens(p)) <= g.max_active_access_tokens[1]

\* the audit rows a successful request appended for its issuance: rows that
\* were not stored when execute() began, of event_type "token.issued", with
\* the client, the user and the id of the access token the request returned
IssuanceAuditRows(p) ==
    {e \in oauth_audit_log \ before[p].audit :
        /\ e.event_type = "token.issued"
        /\ e.client_id = context[p].client_obj.id
        /\ e.user_id = context[p].refresh_token_obj.user_id
        /\ \E a \in oauth_access_tokens :
               /\ a.token = response[p].body.access_token
               /\ a.id \in {e.subject, e.metadata}}

\* C19: every successful refresh-token issuance appends exactly one audit-log
\* entry with event_type "token.issued" carrying the client_id, the user_id
\* and the id of the new access token.
C19_IssuanceAudited ==
    \A p \in Requests :
        Succeeded(p) =>
            /\ Cardinality(IssuanceAuditRows(p)) = 1
            /\ Cardinality(oauth_audit_log \ before[p].audit) = 1

\* C20: the audit log only grows: whatever is called on the audit-log
\* repository, every entry once inserted is still present with unchanged
\* content, and every update and delete_by_id is rejected with
\* NotImplementedError and leaves the log as it was.
C20_AuditLogOnlyGrows ==
    [][/\ oauth_audit_log \subseteq oauth_audit_log'
       /\ \A r \in oauth_audit_log' : \A q \in oauth_audit_log' : r.id = q.id => r = q
       /\ (audit_call' # audit_call /\ audit_call'.op \in {"update", "delete_by_id"}) =>
              /\ audit_call'.raised = "NotImplementedError"
              /\ oauth_audit_log' = oauth_audit_log]_vars

\* delete_by_id was called with the id of a stored entry while another entry
\* is stored too, and the entry is still there
C20_Witness ==
    /\ audit_call.op = "delete_by_id"
    /\ \E r \in oauth_audit_log : r.id = audit_call.id
    /\ Cardinality(oauth_audit_log) = MaxAuditRows

\* the code and status RFC 6749 gives each internal error code
Rfc6749 ==
    {[internal |-> INVALID_REQUEST, error |-> "invalid_request", status_code |-> 400],
     [internal |-> INVALID_CLIENT, error |-> "invalid_client", status_code |-> 401],
     [internal |-> INVALID_GRANT, error |-> "invalid_grant", status_code |-> 400],
     [internal |-> INVALID_SCOPE, error |-> "invalid_scope", status_code |-> 400],
     [internal |-> "oauth.unsupported_grant_type", error |-> "unsupported_grant_type",
      status_code |-> 400],
     [internal |-> SERVER_ERROR, error |-> "server_error", status_code |-> 500]}

\* the flow of request p ended and the endpoint has rendered its response
Responded(p) == Returned(p) /\ http[p].response # NoHttpResponse

\* C21: every failure raised by the refresh-token flow with internal code
\* oauth.X is rendered by the token endpoint as a body {error: X,
\* error_description} with status 401 for invalid_client, 500 for
\* server_error and 400 for the other codes; a revoked refresh token yields
\* 400 invalid_grant and a wrong client secret 401 invalid_client.
C21_ErrorRendering ==
    \A p \in Requests :
        (Responded(p) /\ Failed(p)) =>
            \E e \in Rfc6749 :
                /\ e.internal = response[p].error_code
                /\ http[p].response.content.error = e.error
                /\ http[p].response.status_code = e.status_code

\* an Authorization: Basic header whose value cannot be decoded or decodes
\* to a text without ":"
MalformedBasic(h) ==
    /\ h.prefix = "Basic "
    /\ \/ b64decode(h.rest).raised # None
       \/ Len(split(b64decode(h.rest).text)) # 2

\* C22: for a refresh_token grant sent as JSON, credentials from a
\* well-formed Authorization: Basic header replace the body's client_id and
\* client_secret, and every malformed Basic header is answered with 401
\* invalid_client without executing the flow.
C22_BasicHeader ==
    \A p \in Requests :
        LET request == http[p].request
            h == request.authorization
        IN (parse_request(request) = NoHttpResponse /\ h.prefix = "Basic ") =>
               IF MalformedBasic(h)
               THEN /\ http[p].response = RefreshTokenView_unauthorized_client
                    /\ Idle(p)
               ELSE ~Idle(p) =>
                        <<context[p].client_id, context[p].client_secret>>
                            = split(b64decode(h.rest).text)

\* a request the controller refuses before it looks at credentials: another
\* content type, a body that is not JSON, another grant type
Refusable(request) ==
    \/ request.content_type # "application/json"
    \/ ~request.body.json
    \/ request.body.grant_type # "refresh_token"

\* C27: a token request whose grant_type is not "refresh_token", whose body
\* is not valid JSON, or whose content type is not application/json is
\* answered with status 400 (unsupported_grant_type, respectively
\* invalid_request) in the step that takes it, in which no flow variable and
\* no stored row changes.
C27_RefusedBeforeFlow ==
    [][\A p \in Requests :
          (http'[p] # http[p] /\ http'[p].request \in HttpRequests
              /\ http'[p].request # http[p].request
              /\ Refusable(http'[p].request)) =>
              /\ http'[p].response.status_code = 400
              /\ http'[p].response.content.error =
                     IF /\ http'[p].request.content_type = "application/json"
                        /\ http'[p].request.body.json
                     THEN "unsupported_grant_type" ELSE "invalid_request"
              /\ <<tables, flow, grants>>' = <<tables, flow, grants>>]_vars

\* a request with grant_type "password" was answered with 400 on tables an
\* earlier request has issued tokens into
C27_Witness ==
    \E p \in Requests :
        /\ http[p].request.body.grant_type = "password"
        /\ http[p].response = RefreshTokenView_unsupported_grant_type
        /\ Idle(p)
        /\ oauth_access_tokens # {}

C24_PublicClientNoSecret ==
    \A i \in Registrations :
        (registrations[i].pc # "idle" /\ ~registrations[i].request.is_confidential) =>
            /\ registrations[i].plaintext_secret = None
            /\ \A r \in oauth_clients :
                   r.id = registrations[i].client_id =>
                       r.client_secret = None /\ ~r.is_confidential
            /\ RegSucceeded(i) =>
                   /\ registrations[i].result.client_message.client_secret = None
                   /\ \E r \in oauth_clients : r.id = registrations[i].client_id
                   /\ \E g \in oauth_client_configs :
                          g.client_id = registrations[i].client_id

\* a public client has been registered after a confidential one
C24_Witness ==
    \E i, j \in Registrations :
        /\ RegSucceeded(i) /\ ~registrations[i].request.is_confidential
        /\ RegSucceeded(j) /\ registrations[j].request.is_confidential
        /\ \E r \in oauth_clients : r.id = registrations[i].client_id

\* the scope a successful request is to be given: the requested scope when
\* one is given, the scopes of the presented refresh token otherwise
EffectiveScope(p) ==
    IF context[p].scope # <<>> THEN {context[p].scope}
    ELSE {r.scopes : r \in PresentedBefore(p)}

\* C25: the scope of a successful refresh is the requested scope when one
\* is given and the presented refresh token's scopes otherwise; the returned
\* scope, the scopes of the persisted access-token row and, on rotation, the
\* scopes of the replacement refresh-token row all equal it.
C25_EffectiveScope ==
    \A p \in Requests :
        Succeeded(p) =>
            LET b == response[p].body
            IN /\ EffectiveScope(p) = {b.scope}
               /\ \E a \in oauth_access_tokens : a.token = b.access_token
               /\ \A a \in oauth_access_tokens :
                      a.token = b.access_token => a.scopes = b.scope
               /\ b.is_rotated =>
                      /\ \E r \in oauth_refresh_tokens : r.token = b.refresh_token
                      /\ \A r \in oauth_refresh_tokens :
                             r.token = b.refresh_token => r.scopes = b.scope

\* a rotating request for the scope "read" succeeded on a token granted
\* "read write"
C25_Witness ==
    \E p \in Requests :
        /\ Succeeded(p)
        /\ response[p].body.is_rotated
        /\ context[p].scope = <<"read">>
        /\ \E r \in PresentedBefore(p) : r.scopes = <<"read", "write">>

\* C26: with rotation disabled, a successful refresh returns the presented
\* refresh-token string, sets only updated_at = the request's timestamp on
\* the presented row (revoked_at stays null), inserts no refresh-token row,
\* and the owner of a token that was used successfully before succeeds with
\* it again.
C26_NoRotation ==
    ~rotate_refresh_tokens =>
        \A p \in Requests :
            /\ Succeeded(p) =>
                   /\ response[p].body.refresh_token = context[p].refresh_token
                   /\ ~response[p].body.is_rotated
                   /\ timestamp[p] \in 0..now
                   /\ oauth_refresh_tokens =
                          {IF r.token = context[p].refresh_token
                           THEN [r EXCEPT !.updated_at = timestamp[p]] ELSE r :
                              r \in before[p].refresh}
                   /\ \A r \in oauth_refresh_tokens : r.revoked_at = Null
            /\ (Returned(p) /\ Authenticated(p)
                    /\ \E i \in 1..Len(redeemed) : redeemed[i] = context[p].refresh_token
                    /\ \E r \in PresentedBefore(p) : r.client_id = context[p].client_obj.id)
                   => Succeeded(p)

\* without rotation the same refresh token was used successfully twice, the
\* second time after the clock had moved
C26_Witness ==
    /\ ~rotate_refresh_tokens
    /\ Len(redeemed) = 2 /\ redeemed[1] = redeemed[2]
    /\ \E p \in Requests :
           /\ Succeeded(p)
           /\ timestamp[p] > 0
           /\ \E r \in oauth_refresh_tokens :
                  r.token = context[p].refresh_token /\ r.updated_at = timestamp[p]

\* the lifecycle events of one request, in order
Lifecycle == <<"log_start", "preconditions", "run", "postconditions", "log_success">>

\* the access-token row a request has inserted for the token it returns
AccessTokenInserted(p) ==
    \E a \in oauth_access_tokens : a.token = result[p].access_token

\* C28: within one request the events occur in the order log_start,
\* preconditions, run, postconditions, log_success, each step starting after
\* the previous one completed; success is logged only after every
\* postcondition write completed, and inside postconditions the access-token
\* row is inserted before any refresh-token row is revoked, updated or
\* inserted.
C28_LifecycleOrder ==
    \A p \in Requests :
        /\ trace[p] = SubSeq(Lifecycle, 1, Len(trace[p]))
        /\ pc[p] \in {"presence", "authenticate", "authenticate_config",
                      "validate_refresh_token", "check_limit", "run"} =>
               Len(trace[p]) = 2 /\ Tables = before[p]
        /\ pc[p] = "postconditions" => Len(trace[p]) = 3 /\ Tables = before[p]
        /\ pc[p] \in {"revoke", "insert_refresh", "update_timestamp"} =>
               /\ Len(trace[p]) = 4
               /\ AccessTokenInserted(p)
               /\ pc[p] # "insert_refresh" => oauth_refresh_tokens = before[p].refresh
        /\ Failed(p) => Len(trace[p]) = 2
        /\ Succeeded(p) =>
               /\ trace[p] = Lifecycle
               /\ AccessTokenInserted(p)
               /\ \E r \in oauth_refresh_tokens :
                      /\ r.token = context[p].refresh_token
                      /\ IF result[p].is_rotated THEN r.revoked_at = <<timestamp[p]>>
                         ELSE r.updated_at = timestamp[p]
               /\ result[p].is_rotated =>
                      \E r \in oauth_refresh_tokens : r.token = result[p].refresh_token

\* a rotating request is between the revocation of the presented token and
\* the insert of its replacement
C28_Witness ==
    \E p \in Requests :
        /\ pc[p] = "insert_refresh"
        /\ AccessTokenInserted(p)
        /\ oauth_refresh_tokens # before[p].refresh
        /\ before[p].access # {}

\* the error of the earliest check the request fails, in the order presence,
\* client authentication, refresh-token validation, on the tables the request
\* began with; None when it fails none
EarliestFailure(p) ==
    IF Falsy(context[p].refresh_token) THEN INVALID_REQUEST
    ELSE IF Unauthenticated(p) THEN INVALID_CLIENT
    ELSE IF \A r \in PresentedBefore(p) :
                \/ r.revoked_at # Null
                \/ \A cl \in ClientBefore(p) : r.client_id # cl.id
    THEN INVALID_GRANT
    ELSE None

\* C29: the conditions of a request are invoked in declaration order, each
\* only after every earlier one passed: the client is authenticated only for
\* a request that presents a refresh_token, the token is looked up only for
\* an authenticated client, the quota is checked only for a validated token;
\* a returned request carries the error of the earliest check it fails
\* (INVALID_REQUEST before INVALID_CLIENT before INVALID_GRANT), no later
\* condition has left its object in the context, and it succeeds only when
\* it fails none.
C29_EarliestFailure ==
    \A p \in Requests :
        /\ pc[p] \in {"authenticate", "authenticate_config"} =>
               /\ ~Falsy(context[p].refresh_token)
               /\ context[p].refresh_token_obj = NoRefreshToken
        /\ pc[p] = "authenticate" => context[p].client_obj = NoClient
        /\ pc[p] = "validate_refresh_token" =>
               /\ ~Falsy(context[p].refresh_token)
               /\ ~Unauthenticated(p)
               /\ context[p].client_obj \in ClientBefore(p)
               /\ context[p].refresh_token_obj = NoRefreshToken
        /\ pc[p] = "check_limit" =>
               /\ EarliestFailure(p) = None
               /\ context[p].refresh_token_obj \in PresentedBefore(p)
        /\ Returned(p) =>
               /\ IF EarliestFailure(p) = None THEN Succeeded(p)
                  ELSE FailedWith(p, EarliestFailure(p))
               /\ EarliestFailure(p) \in {INVALID_REQUEST, INVALID_CLIENT} =>
                      context[p].client_obj = NoClient
               /\ EarliestFailure(p) # None =>
                      context[p].refresh_token_obj = NoRefreshToken

\* a request fails two checks at once, the confidential client's secret is
\* wrong and the presented token is revoked, and is refused as INVALID_CLIENT
C29_Witness ==
    \E p \in Requests :
        /\ FailedWith(p, INVALID_CLIENT)
        /\ \E r \in ClientBefore(p) :
               /\ r.is_confidential
               /\ ~Falsy(context[p].client_secret)
               /\ ~Hasher_verify(context[p].client_secret, r.client_secret,
                                 r.created_by, r.id)
        /\ \E r \in PresentedBefore(p) : r.revoked_at # Null

\* the request is for a confidential client stored without a secret hash
ForUnhashedClient(p) ==
    \E r \in ClientBefore(p) : r.is_confidential /\ Falsy(r.client_secret)

\* C30 as stated: a refresh-token request for a confidential client whose
\* stored secret hash is null or empty fails with INVALID_CLIENT, the code of
\* a secret mismatch.
C30_MissingHashInvalidClient ==
    \A p \in Requests :
        (Returned(p) /\ ForUnhashedClient(p) /\ ~Falsy(context[p].refresh_token)) =>
            FailedWith(p, INVALID_CLIENT)

\* C30 amended: a refresh-token request for a confidential client whose
\* stored secret hash is null or empty issues nothing and fails with
\* SERVER_ERROR when it carries a client_secret, whatever the secret, and
\* with INVALID_CLIENT when it carries none.
C30_MissingHashServerError ==
    \A p \in Requests :
        (Returned(p) /\ ForUnhashedClient(p) /\ ~Falsy(context[p].refresh_token)) =>
            /\ Tables = before[p]
            /\ result[p] = NoResult
            /\ IF Falsy(context[p].client_secret)
               THEN FailedWith(p, INVALID_CLIENT)
               ELSE FailedWith(p, SERVER_ERROR)

\* the confidential client's hash was overwritten with the empty string and
\* a request with the client's secret and its token was refused
C30_Witness ==
    \E p \in Requests :
        /\ Failed(p)
        /\ \E r \in ClientBefore(p) : r.is_confidential /\ r.client_secret = ""
        /\ context[p].client_secret = "valid_secret"
        /\ context[p].refresh_token = "valid"

\* C31: a refresh-token request during which the client lookup or the
\* refresh-token lookup fails for an infrastructure reason (FETCH_FAILED)
\* fails with SERVER_ERROR, not with a business code.
C31_StorageFailureIsServerError ==
    \A p \in Requests :
        (Returned(p) /\ faulted[p] \cap {"authenticate", "validate_refresh_token"} # {}) =>
            FailedWith(p, SERVER_ERROR)

\* the stored client the request passes the secret check of, on the tables
\* the request began with
AuthenticatingClient(p) ==
    {r \in ClientBefore(p) :
        r.is_confidential =>
            /\ ~Falsy(context[p].client_secret)
            /\ ~Falsy(r.client_secret)
            /\ Hasher_verify(context[p].client_secret, r.client_secret,
                             r.created_by, r.id)}

\* the request presents a refresh_token and valid credentials of a client
\* that has no configuration row
WithoutConfiguration(p) ==
    /\ ~Falsy(context[p].refresh_token)
    /\ \E r \in AuthenticatingClient(p) :
           \A c \in before[p].configs : c.client_id # r.id

\* C32: a refresh-token request of a client that passes the secret check and
\* has no configuration row fails with SERVER_ERROR in the authentication
\* condition: the refresh token is never looked up (the context holds no
\* refresh_token_obj and the request is never at the token condition), and
\* no row of any table is inserted, revoked or changed.
C32_MissingConfiguration ==
    \A p \in Requests :
        (~Idle(p) /\ WithoutConfiguration(p)) =>
            /\ pc[p] \in {"presence", "authenticate", "authenticate_config", "returned"}
            /\ context[p].refresh_token_obj = NoRefreshToken
            /\ context[p].client_config = NoConfig
            /\ Tables = before[p]
            /\ result[p] = NoResult
            /\ Returned(p) => FailedWith(p, SERVER_ERROR)

\* the confidential client, its configuration row deleted, presents its
\* secret and its unrevoked token and is refused
C32_Witness ==
    \E p \in Requests :
        /\ Failed(p)
        /\ WithoutConfiguration(p)
        /\ context[p].client_obj.is_confidential
        /\ \E r \in PresentedBefore(p) :
               r.revoked_at = Null /\ r.client_id = context[p].client_obj.id

\* the stored public client the request names
PublicClient(p) == {r \in ClientBefore(p) : ~r.is_confidential}

\* C33: no call of the hasher is ever made for a public client, and a
\* request that names a public client and presents a refresh_token passes
\* client authentication whatever its client_secret is (absent, empty, any
\* value): once past the authentication condition its context holds the
\* client, and it ends as the token alone decides, with INVALID_GRANT for a
\* token that is unknown, revoked or another client's, with success else.
C33_PublicClientNoSecretCheck ==
    /\ \A r \in oauth_clients : ~r.is_confidential => hasher_call.client_id # r.id
    /\ \A p \in Requests :
           (~Idle(p) /\ ~Falsy(context[p].refresh_token)) =>
               \A r \in PublicClient(p) :
                   /\ pc[p] \notin {"presence", "authenticate"} =>
                          context[p].client_obj = r
                   /\ Returned(p) =>
                          IF \E t \in PresentedBefore(p) :
                                 t.revoked_at = Null /\ t.client_id = r.id
                          THEN Succeeded(p)
                          ELSE FailedWith(p, INVALID_GRANT)

\* the public client presented an empty client_secret with its token and
\* was served, after a request for which the hasher was called
C33_Witness ==
    \E p \in Requests :
        /\ Succeeded(p)
        /\ PublicClient(p) # {}
        /\ context[p].client_secret = ""
        /\ hasher_call.op = "verify"

\* C34: a register_client call whose configuration insert fails does not
\* return there: it goes on to the compensating delete, and the step that
\* runs the delete returns the configuration insert's failure unchanged,
\* whether or not the delete fails; the delete removes no row but the
\* identity row with the call's own generated id, removes that row whenever
\* the delete itself does not fail, and touches no configuration row.
C34_Compensation ==
    [][\A i \in Registrations :
          LET reg == registrations[i]
              after == registrations'[i]
          IN /\ (reg.pc = "insert_config" /\ after.pc = "returned") => after.result.status
             /\ (reg.pc = "insert_config" /\ after.pc = "rollback") =>
                    /\ ~after.result.status
                    /\ after.result.error_code = "INSERT_FAILED"
                    /\ oauth_clients' = oauth_clients
             /\ (reg.pc = "rollback" /\ after.pc # "rollback") =>
                    /\ after.pc = "returned"
                    /\ after.result = reg.result
                    /\ after.result.error_code = "INSERT_FAILED"
                    /\ oauth_clients' \subseteq oauth_clients
                    /\ \A r \in oauth_clients \ oauth_clients' : r.id = reg.client_id
                    /\ "rollback" \notin after.faulted =>
                           \A r \in oauth_clients' : r.id # reg.client_id
                    /\ oauth_client_configs' = oauth_client_configs]_vars

\* a call returned the configuration insert's failure after its compensating
\* delete failed: the identity row is still stored
C34_Witness ==
    \E i \in Registrations :
        /\ RegFailed(i)
        /\ registrations[i].result.error_code = "INSERT_FAILED"
        /\ "rollback" \in registrations[i].faulted
        /\ \E r \in oauth_clients : r.id = registrations[i].client_id

\* C35: a register_client call whose uniqueness lookup fails with a storage
\* error (FETCH_FAILED) returns in that step with the store's failure as the
\* store returned it, has drawn no client id and no secret, and the step
\* leaves every table as it was; the call makes no further step, so it
\* inserts no identity and no configuration row.
C35_LookupFailurePropagates ==
    [][\A i \in Registrations :
          LET reg == registrations[i]
              after == registrations'[i]
          IN /\ (reg.pc = "check_duplicate" /\ "check_duplicate" \in after.faulted) =>
                    /\ after.pc = "returned"
                    /\ after.result =
                           OAuthClientStore_get_by_client_identifier(
                               reg.request.client_identifier, TRUE)
                    /\ after.result.error_code \notin {"NOT_FOUND",
                                                       "DUPLICATE_CLIENT_IDENTIFIER"}
                    /\ after.client_id = None
                    /\ after.plaintext_secret = None
                    /\ Tables' = Tables
             /\ (reg.pc = "returned" /\ "check_duplicate" \in reg.faulted) =>
                    after = reg]_vars

\* a valid request for a confidential client with a free identifier was
\* refused because the lookup failed, with no secret drawn, while the other
\* call registered its client
C35_Witness ==
    \E i \in Registrations :
        /\ RegFailed(i)
        /\ "check_duplicate" \in registrations[i].faulted
        /\ registrations[i].request.is_confidential
        /\ ~TakenAtCall(i)
        /\ registrations[i].plaintext_secret = None
        /\ \E j \in Registrations : j # i /\ RegSucceeded(j)

\* the request names a stored client that is disabled and passes its secret
\* check
AsDisabledClient(p) == \E r \in AuthenticatingClient(p) : ~r.is_enabled

\* C36: a refresh-token request authenticated as a client whose is_enabled
\* is false never succeeds and stores no access or refresh token.
C36_DisabledClientRefused ==
    \A p \in Requests :
        (~Idle(p) /\ AsDisabledClient(p)) =>
            /\ ~Succeeded(p)
            /\ oauth_access_tokens = before[p].access
            /\ oauth_refresh_tokens = before[p].refresh

\* base64.urlsafe_b64decode of a text whose padding was stripped
urlsafe_b64decode(text) ==
    LET index(k) == IF k <= Len(text)
                    THEN (CHOOSE n \in 1..64 : Alphabet[n] = text[k]) - 1
                    ELSE 0
        group(g) == index(4 * g - 3) * 262144 + index(4 * g - 2) * 4096
                    + index(4 * g - 1) * 64 + index(4 * g)
        byte(n, j) == CASE j = 0 -> n \div 65536
                        [] j = 1 -> (n \div 256) % 256
                        [] OTHER -> n % 256
    IN [i \in 1..((3 * Len(text)) \div 4) |-> byte(group((i + 2) \div 3), (i - 1) % 3)]

\* C37: a DefaultClientSecretGenerator is refused with ValueError for every
\* byte_length below 32 and constructed for every byte_length from 32 on, and
\* every secret it generates is the unpadded URL-safe base64 text of exactly
\* byte_length bytes from which the random bytes drawn can be recovered: the
\* bytes at the positions the digest covers by undoing the XOR, the others as
\* they were drawn.
C37_SecretKeepsRandomMaterial ==
    /\ generator_call.op = "init" =>
           (generator_call.requested < 32 <=> generator_call.raised = "ValueError")
    /\ generator_call.byte_length # 0 => generator_call.byte_length >= 32
    /\ generator_call.secret # <<>> =>
           LET decoded == urlsafe_b64decode(generator_call.secret)
               mix == sha256_digest(generator_call.user_id)
           IN /\ \A k \in 1..Len(generator_call.secret) : generator_call.secret[k] # "="
              /\ Len(generator_call.secret) = (4 * generator_call.byte_length + 2) \div 3
              /\ Len(decoded) = generator_call.byte_length
              /\ \A i \in 1..Len(decoded) :
                     generator_call.random_bytes[i] =
                         IF i <= Len(mix) THEN xor(decoded[i], mix[i]) ELSE decoded[i]

\* two calls for the same client_identifier that both passed the uniqueness
\* lookup, so each drew a client id, and both have returned
Raced(i, j) ==
    /\ i # j
    /\ registrations[i].request.client_identifier =
           registrations[j].request.client_identifier
    /\ RegReturned(i) /\ registrations[i].client_id # None
    /\ RegReturned(j) /\ registrations[j].client_id # None

\* the calls that passed the uniqueness lookup for the client_identifier of
\* call i (each drew a client id), returned or not
Racers(i) ==
    {k \in Registrations :
        /\ registrations[k].client_id # None
        /\ registrations[k].request.client_identifier =
               registrations[i].request.client_identifier}

\* C38: at no time do two identity rows share a client_identifier; and of
\* the register_client calls for one client_identifier that all passed the
\* uniqueness lookup (two or more), at most one has returned success, every
\* one that returned a failure returned the envelope of the refused insert,
\* and once all of them have returned exactly one has succeeded and exactly
\* one identity row with exactly one configuration row exists for that
\* identifier.
C38_RegistrationRace ==
    /\ \A r \in oauth_clients : \A q \in oauth_clients :
           r.client_identifier = q.client_identifier => r = q
    /\ \A i \in Registrations :
           (registrations[i].client_id # None /\ Cardinality(Racers(i)) >= 2) =>
               LET rows == {r \in oauth_clients :
                               r.client_identifier =
                                   registrations[i].request.client_identifier}
                   winners == {k \in Racers(i) : RegSucceeded(k)}
               IN /\ Cardinality(winners) <= 1
                  /\ \A k \in Racers(i) :
                         RegFailed(k) =>
                             registrations[k].result.error_code = "INSERT_FAILED"
                  /\ (\A k \in Racers(i) : RegReturned(k)) =>
                         /\ Cardinality(winners) = 1
                         /\ Cardinality(rows) = 1
                         /\ \A r \in rows :
                                /\ \E k \in winners : r.id = registrations[k].client_id
                                /\ Cardinality({g \in oauth_client_configs :
                                                    g.client_id = r.id}) = 1

\* both calls passed the lookup for the same free identifier and returned
C38_Witness ==
    \E i \in Registrations : \E j \in Registrations :
        Raced(i, j) /\ RegSucceeded(i) /\ RegFailed(j)

\* the refresh tokens descended from a stored token by rotation: rotation is
\* the only insert, and it copies client_id and user_id of the presented row
Descendants(seed) ==
    {r \in oauth_refresh_tokens : r.client_id = seed.client_id /\ r.user_id = seed.user_id}

\* C39: with rotation enabled, at most one refresh token descended from an
\* initially active token is unrevoked at any time, however the requests
\* interleave.
C39_OneActiveDescendant ==
    rotate_refresh_tokens =>
        \A seed \in SeedRefreshTokens :
            Cardinality({r \in Descendants(seed) : r.revoked_at = Null}) <= 1

\* the request has stored, or is past storing, its access token
PastAccessTokenInsert(p) ==
    pc[p] \in {"revoke", "insert_refresh", "update_timestamp"} \/ Succeeded(p)

\* C40: the only access-token row a request adds is the one carrying the
\* token it returns, and that row's client_id is the id of the stored client
\* the request authenticated as and its user_id the user_id of the presented
\* refresh token, whose client_id is that same client; a request that has
\* not reached the insert, or was refused, has added no access-token row.
C40_AccessTokenOwner ==
    \A p \in Requests :
        /\ (~Idle(p) /\ ~PastAccessTokenInsert(p)) =>
               oauth_access_tokens = before[p].access
        /\ PastAccessTokenInsert(p) =>
               /\ before[p].access \subseteq oauth_access_tokens
               /\ \A a \in oauth_access_tokens \ before[p].access :
                      /\ a.token = result[p].access_token
                      /\ \E cl \in AuthenticatingClient(p) : a.client_id = cl.id
                      /\ \E t \in PresentedBefore(p) :
                             /\ a.user_id = t.user_id
                             /\ a.client_id = t.client_id

\* the second request served, for a client other than the first one's: its
\* access token is stored next to the first one's
C40_Witness ==
    \E p \in Requests :
        /\ Succeeded(p)
        /\ \E a \in oauth_access_tokens \ before[p].access :
               \E b \in before[p].access :
                   a.client_id # b.client_id /\ a.user_id # b.user_id

====
